---- MODULE Spec2Model ----
(***************************************************************************)
(* data-pile: an append-only record store on two growable memory-mapped    *)
(* streams (the flat payload stream and the sequence-number index).        *)
(*                                                                         *)
(* A stream is modelled at byte level: the bytes of the backing file (or   *)
(* of the anonymous maps) indexed by stream address, the header's logical  *)
(* size, the file length, the frozen segments with their index, the active *)
(* segment with its bounds, and the Appender's published size.             *)
(***************************************************************************)
EXTENDS Integers, Sequences, FiniteSets, TLC

(* ------------------------------ bounds -------------------------------- *)
\* append calls with a non-empty batch per run
MaxAppends == 3
\* records per batch
MaxBatch == 2
\* bytes per record
MaxRecLen == 2
\* failed appends (an operation of the OS returning an error, or a batch the
\* flat file rejects) per run
MaxFaults == 1
\* the map_size given to Appender::new (appender.rs): bytes of the one map
map_size == 4
\* close / open cycles per run
MaxOpens == 2
\* the bootstrap capacity unit of a file-backed stream: 2048 in
\* growable_mmap.rs:271, scaled down so that segments fill up and roll over
\* within the other bounds
DefaultMmapSize == 5
\* append calls per run of the threads
MaxCalls == 2

(* ------------------------- program constants -------------------------- *)
\* StorageHeader::HEADER_SIZE = size_of::<usize>() * 2 on a 64-bit target
HEADER_SIZE == 16
\* size_of::<u64>(), the width of one sequence-number entry
U64_SIZE == 8

(* ------------------------------ helpers ------------------------------- *)
Max(a, b) == IF a >= b THEN a ELSE b

Last(s) == s[Len(s)]

\* Option<T>
None == <<>>

Some(x) == <<x>>

\* bytes of a stream, address a at position a + 1; never written bytes of a
\* file extended by set_len (or of an anonymous map) read as zero
ByteAt(b, a) == IF a < Len(b) THEN b[a + 1] ELSE 0

ReadRange(b, at, n) == [i \in 1..n |-> ByteAt(b, at + i - 1)]

WriteAt(b, at, data) ==
    [i \in 1..Max(Len(b), at + Len(data)) |->
        IF i > at /\ i <= at + Len(data) THEN data[i - at] ELSE ByteAt(b, i - 1)]

Truncate(b, n) == IF Len(b) > n THEN SubSeq(b, 1, n) ELSE b

RECURSIVE SumSeq(_)
SumSeq(s) == IF s = <<>> THEN 0 ELSE s[1] + SumSeq(Tail(s))

RECURSIVE Concat(_)
Concat(ss) == IF ss = <<>> THEN <<>> ELSE ss[1] \o Concat(Tail(ss))

\* slice::binary_search on a strictly increasing sequence: Ok(position) of
\* the element, or Err(position where it would be inserted); 0-based
binary_search(s, x) ==
    IF \E i \in 1..Len(s) : s[i] = x
    THEN [ok |-> TRUE, pos |-> (CHOOSE i \in 1..Len(s) : s[i] = x) - 1]
    ELSE [ok |-> FALSE, pos |-> Cardinality({i \in 1..Len(s) : s[i] < x})]

(* --------------------------- SingleMmapIndex --------------------------- *)
SingleMmapIndex_new(start) == [start |-> start, internal_bounds |-> <<>>]

current_mmap_size(mi) ==
    IF mi.internal_bounds = <<>> THEN 0 ELSE Last(mi.internal_bounds)

last_global_index(mi) == mi.start + current_mmap_size(mi)

\* the assertion of SingleMmapIndex::append
append_assert(mi, end) == current_mmap_size(mi) < end

SingleMmapIndex_append(mi, end) ==
    [mi EXCEPT !.internal_bounds =
        IF @ = <<>> THEN <<0, end>> ELSE Append(@, end)]

SingleMmapIndex_is_empty(mi) == last_global_index(mi) = 0

\* results of a lookup: none, a descriptor, or a panic (index out of range)
NoDescriptor == [tag |-> "none", mmap_number |-> 0, mmap_offset |-> 0, len |-> 0]

PanicDescriptor == [tag |-> "panic", mmap_number |-> 0, mmap_offset |-> 0, len |-> 0]

IndexDescriptor(n, off, l) ==
    [tag |-> "some", mmap_number |-> n, mmap_offset |-> off, len |-> l]

\* the descriptor of the whole record that holds the address
find_match_whole(b, rel, r) ==
    IF r.ok
    THEN IF rel = Last(b) THEN NoDescriptor
         ELSE IndexDescriptor(0, b[r.pos + 1], b[r.pos + 2] - b[r.pos + 1])
    ELSE IF r.pos >= Len(b) THEN PanicDescriptor
         ELSE IndexDescriptor(0, b[r.pos], b[r.pos + 1] - b[r.pos])

\* the match on binary_search's result r for the address rel bytes into the
\* segment with bounds b
find_match(b, rel, r) ==
    IF r.ok
    THEN IF rel = Last(b) THEN NoDescriptor
         ELSE IndexDescriptor(0, b[r.pos + 1], b[r.pos + 2] - b[r.pos + 1])
    ELSE IF r.pos >= Len(b) THEN PanicDescriptor
         ELSE IndexDescriptor(0, rel, b[r.pos + 1] - rel)

SingleMmapIndex_find(mi, address) ==
    IF address < mi.start THEN NoDescriptor
    ELSE find_match(mi.internal_bounds, address - mi.start,
                    binary_search(mi.internal_bounds, address - mi.start))

(* ----------------------------- IndexOnMmaps ---------------------------- *)
memory_size(index) ==
    IF index = <<>> THEN 0 ELSE last_global_index(Last(index))

\* the assertion of IndexOnMmaps::add_mmap
add_mmap_assert(index, mi) ==
    SingleMmapIndex_is_empty(mi) \/ memory_size(index) = mi.start

add_mmap(index, mi) ==
    IF SingleMmapIndex_is_empty(mi) THEN index ELSE Append(index, mi)

with_mmap_number(d, n) == IF d.tag = "some" THEN [d EXCEPT !.mmap_number = n] ELSE d

\* the segments the key function of IndexOnMmaps::find maps to address itself
containing(index, address) ==
    {i \in 1..Len(index) :
        index[i].start <= address /\ address < last_global_index(index[i])}

find_in(index, address, hit) ==
    IF hit = {} THEN NoDescriptor
    ELSE with_mmap_number(
             SingleMmapIndex_find(index[CHOOSE i \in hit : TRUE], address),
             (CHOOSE i \in hit : TRUE) - 1)

\* binary_search_by_key with the key "address if the segment contains it,
\* else the segment's start": the position of the segment containing address
IndexOnMmaps_find(index, address) ==
    find_in(index, address, containing(index, address))

(* ------------------------------ a stream ------------------------------- *)
\* One GrowableMmap with the Appender around it.
\*   header   StorageHeader: the logical size stored in the header mapping
\*   fileLen  length of the backing file (0 without a file)
\*   bytes    the user bytes, by stream address (file offset - HEADER_SIZE)
\*   index    inactive_mmaps.index: one SingleMmapIndex per frozen segment
\*   maps     inactive_mmaps.maps: the window [base, base + len) of each
\*   active   Option<ActiveMmap>: capacity len, mapped at base, bounds
\*   size     the Appender's atomic published size
Stream_create(file) ==
    [header |-> 0, fileLen |-> IF file THEN HEADER_SIZE ELSE 0,
     bytes |-> <<>>, index |-> <<>>, maps |-> <<>>, active |-> None, size |-> 0]

(* ----------------------------- GrowableMmap ---------------------------- *)
get_new_mmap_size(file, add, active_mmap_size) ==
    IF ~file THEN add
    ELSE Max(add, 2 * (IF active_mmap_size = None THEN DefaultMmapSize
                       ELSE active_mmap_size[1]))

\* the mapping at offset of a file that is not extended first
create_mmap_unextended(file, st, new_mmap_size, offset) == st

\* file.set_len(offset + new_mmap_size), then the mapping at offset
create_mmap(file, st, new_mmap_size, offset) ==
    IF file
    THEN [st EXCEPT !.fileLen = offset + new_mmap_size,
                    !.bytes = Truncate(@, offset + new_mmap_size - HEADER_SIZE)]
    ELSE st

\* "if we have enough space use active mmap"
fits_in_place(current_mmap_end, add, len) == current_mmap_end + add < len

grow_in_place(st, add) ==
    st.active # None
    /\ fits_in_place(current_mmap_size(st.active[1].bounds), add, st.active[1].len)

\* The points at which grow_and_apply returns an error (an OS call failed):
\*   "extend"   create_mmap: set_len failed
\*   "mmap"     create_mmap: mapping the new segment (or its flush) failed
\*   "protect"  make_read_only on the retired segment failed
\*   "flush"    flush of the active mapping after the payload write failed
\*   "header"   store_storage_size: the header's flush failed
\* "none": no fault, the call returns Ok.
Stops(file, st, add) ==
    (IF ~grow_in_place(st, add) /\ file THEN {"extend"} ELSE {})
    \cup (IF ~grow_in_place(st, add) THEN {"mmap"} ELSE {})
    \cup (IF st.active # None /\ ~grow_in_place(st, add) THEN {"protect"} ELSE {})
    \cup (IF file THEN {"flush", "header"} ELSE {})

\* "header + inactive size" in both arms
already_mapped_inactive(st) ==
    HEADER_SIZE + memory_size(st.index)

\* "header + inactive size", or "header + inactive part + current active part"
already_mapped(st) ==
    HEADER_SIZE + (IF st.active = None THEN memory_size(st.index)
                   ELSE last_global_index(st.active[1].bounds))

active_len(st) == IF st.active = None THEN None ELSE Some(st.active[1].len)

new_active(new_mmap_size, start, add) ==
    [len |-> new_mmap_size, base |-> start,
     bounds |-> SingleMmapIndex_append(SingleMmapIndex_new(start), add)]

\* "add old replaced active mmap to inactive mmaps"
retire(st, act, stop) ==
    [st EXCEPT !.index = add_mmap(@, act.bounds),
               !.maps = IF stop = "protect" THEN @
                        ELSE Append(@, [base |-> act.base,
                                        len |-> current_mmap_size(act.bounds)])]

\* a new active segment: the None arm, and the else arm of the Some arm
new_segment(file, st, new_mmap_size, offset, add, stop) ==
    IF stop = "extend" THEN st
    ELSE IF stop = "mmap" THEN create_mmap(file, st, new_mmap_size, offset)
    ELSE [(IF st.active = None
           THEN create_mmap(file, st, new_mmap_size, offset)
           ELSE retire(create_mmap(file, st, new_mmap_size, offset),
                       st.active[1], stop))
          EXCEPT !.active = Some(new_active(new_mmap_size, offset - HEADER_SIZE, add))]

\* the match on active_map: the stream when start_write_from is known
place(file, st, add, stop) ==
    IF grow_in_place(st, add)
    THEN [st EXCEPT !.active[1].bounds =
              SingleMmapIndex_append(@, current_mmap_size(@) + add)]
    ELSE new_segment(file, st, get_new_mmap_size(file, add, active_len(st)),
                     already_mapped(st), add, stop)

\* every write at the start of the active mapping
start_write_from_zero(st, add) == 0

start_write_from(st, add) ==
    IF grow_in_place(st, add) THEN current_mmap_size(st.active[1].bounds) ELSE 0

\* &mut active_mmap.mmap.as_mut()[start_write_from..], the slice handed to f:
\* its stream address and its length
writer_slice(placed, at) ==
    [start |-> placed.active[1].base + at, len |-> placed.active[1].len - at]

\* the header stored whatever became of the write and of the flush
store_first(placed, at, add, data, stop) ==
    [placed EXCEPT !.header = @ + add]

\* f on the active mapping from start_write_from, the flush, the header
write_and_store(placed, at, add, data, stop) ==
    IF stop \in {"extend", "mmap", "protect"} THEN placed
    ELSE [placed EXCEPT
            !.bytes = WriteAt(@, placed.active[1].base + at, data),
            !.header = IF stop = "flush" THEN @ ELSE @ + add]

\* assert_ne!(add, 0, "no grow in file size"): FALSE is the panic
grows(add) == add # 0

\* the state of the stream when grow_and_apply(add, f) returns, f writing
\* data (Len(data) = add), having stopped at `stop`
grow_and_apply(file, st, add, data, stop) ==
    IF ~grows(add) THEN st
    ELSE write_and_store(place(file, st, add, stop), start_write_from(st, add),
                    add, data, stop)

\* what a reader function is handed: none, the bytes of a slice, or a panic
RNone == [tag |-> "none", val |-> <<>>]

RPanic == [tag |-> "panic", val |-> <<>>]

RSome(v) == [tag |-> "some", val |-> v]

\* the bytes of [mmap_offset, mmap_offset + len) of a mapping of length
\* map_len at stream address base
slice_of(bytes, base, map_len, d) ==
    IF d.tag = "none" THEN RNone
    ELSE IF d.tag = "panic" THEN RPanic
    ELSE IF d.mmap_offset + d.len > map_len THEN RPanic
    ELSE RSome(ReadRange(bytes, base + d.mmap_offset, d.len))

read_inactive(st, d) ==
    IF d.tag = "some" /\ d.mmap_number >= Len(st.maps) THEN RPanic
    ELSE IF d.tag # "some" THEN slice_of(st.bytes, 0, 0, d)
    ELSE slice_of(st.bytes, st.maps[d.mmap_number + 1].base,
                  st.maps[d.mmap_number + 1].len, d)

read_active(bytes, a, address) ==
    slice_of(bytes, a.base, a.len, SingleMmapIndex_find(a.bounds, address))

get_ref_and_apply(st, address) ==
    IF address < memory_size(st.index)
    THEN read_inactive(st, IndexOnMmaps_find(st.index, address))
    ELSE IF st.active = None THEN RNone
    ELSE read_active(st.bytes, st.active[1], address)

\* GrowableMmap::new on an existing file: "ok" or "panic" (the assertion of
\* SingleMmapIndex::append on a zero-length mapping)
GrowableMmap_new_status(st) ==
    IF st.fileLen > HEADER_SIZE
       /\ ~append_assert(SingleMmapIndex_new(0), st.header)
    THEN "panic" ELSE "ok"

GrowableMmap_new(st) ==
    IF st.fileLen > HEADER_SIZE
    THEN [st EXCEPT
            !.index = add_mmap(<<>>, SingleMmapIndex_append(SingleMmapIndex_new(0),
                                                            st.header)),
            !.maps = <<[base |-> 0, len |-> st.header]>>,
            !.active = None]
    ELSE [st EXCEPT !.index = <<>>, !.maps = <<>>, !.active = None]

(* ------------------------------- Appender ------------------------------ *)
\* the store of the new size after grow_and_apply returned Ok
publish(grown, new_file_size, stop) ==
    IF stop = "none" THEN [grown EXCEPT !.size = new_file_size] ELSE grown

\* append(size_inc, f): grow_and_apply, then the store of the new size
Appender_append(file, st, size_inc, data, stop) ==
    publish(grow_and_apply(file, st, size_inc, data, stop), st.size + size_inc, stop)

Appender_size(st) == st.size

Appender_get_data(st, offset) ==
    IF offset >= st.size THEN RNone ELSE get_ref_and_apply(st, offset)

\* Appender::new on an existing file: the published size is the header's
Appender_new(st) == [GrowableMmap_new(st) EXCEPT !.size = st.header]

(* ------------------------------ SeqNoIndex ----------------------------- *)
RECURSIVE to_le_bytes(_, _)
to_le_bytes(v, n) ==
    IF n = 0 THEN <<>> ELSE <<v % 256>> \o to_le_bytes(v \div 256, n - 1)

RECURSIVE from_le_bytes(_)
from_le_bytes(b) ==
    IF b = <<>> THEN 0 ELSE b[1] + 256 * from_le_bytes(Tail(b))

\* the bytes the writer function of SeqNoIndex::append writes
seqno_bytes(offsets) ==
    Concat([i \in 1..Len(offsets) |-> to_le_bytes(offsets[i], U64_SIZE)])

\* the stream after SeqNoIndex::append(records): untouched by an empty slice
SeqNoIndex_append(file, sq, offsets, stop) ==
    IF offsets = <<>> THEN sq
    ELSE Appender_append(file, sq, Len(offsets) * U64_SIZE, seqno_bytes(offsets), stop)

\* the published size taken for the entry count
current_seqno_in_bytes(sq) == Appender_size(sq)

\* current_seqno: the number of entries before the append
current_seqno(sq) == Appender_size(sq) \div U64_SIZE

\* the value SeqNoIndex::append(records) returns in Ok
SeqNoIndex_append_value(sq, offsets) ==
    IF offsets = <<>> THEN None ELSE Some(current_seqno(sq))

\* SeqNoIndex::size, the number of entries
SeqNoIndex_size(sq) == Appender_size(sq) \div U64_SIZE

\* results of get_pointer_to_value: none, an offset, or a panic
PNone == [tag |-> "none", val |-> 0]

PPanic == [tag |-> "panic", val |-> 0]

PSome(v) == [tag |-> "some", val |-> v]

\* the reader function of get_pointer_to_value on what get_data hands it
decode_pointer(r) ==
    IF r.tag = "none" THEN PNone
    ELSE IF r.tag = "panic" THEN PPanic
    ELSE IF Len(r.val) < U64_SIZE THEN PPanic
    ELSE PSome(from_le_bytes(SubSeq(r.val, 1, U64_SIZE)))

\* the lookup that reads the entry before the one asked for
get_pointer_to_previous(sq, seqno) ==
    decode_pointer(Appender_get_data(sq, (seqno - 1) * U64_SIZE))

get_pointer_to_value(sq, seqno) ==
    decode_pointer(Appender_get_data(sq, seqno * U64_SIZE))

(* ------------------------------- FlatFile ------------------------------ *)
total_len(records) == SumSeq([i \in 1..Len(records) |-> Len(records[i])])

\* "rejecting zero-length records as unsupported"
FlatFile_rejects(records) == \E i \in 1..Len(records) : Len(records[i]) = 0

FlatFile_append(file, fl, records, stop) ==
    IF FlatFile_rejects(records) THEN fl
    ELSE Appender_append(file, fl, total_len(records), Concat(records), stop)

FlatFile_memory_size(fl) == Appender_size(fl)

\* the reader function of get_record_at_offset on what get_data hands it
take_record(r, length) ==
    IF r.tag # "some" THEN r
    ELSE IF Len(r.val) < length THEN RNone
    ELSE RSome(SubSeq(r.val, 1, length))

get_record_at_offset(fl, offset, length) ==
    take_record(Appender_get_data(fl, offset), length)

(* ------------------------------- Database ------------------------------ *)
\* the offsets append_get_seqno computes for a batch starting at initial_size
RECURSIVE seqno_index_update(_, _)
seqno_index_update(records, offset) ==
    IF records = <<>> THEN <<>>
    ELSE <<offset>> \o seqno_index_update(Tail(records), offset + Len(records[1]))

\* "underflow": next_offset - offset below zero, a panic in a build with
\* overflow checks and a wrapped length (so no record) without them
RUnderflow == [tag |-> "underflow", val |-> <<>>]

\* the last steps of get_by_seqno, on the values it loaded: the offset o and
\* the next offset n, or the flat size where there is no next offset
read_record(fl, o, n, flat_size) ==
    IF o.tag = "none" THEN RNone
    ELSE IF o.tag = "panic" \/ n.tag = "panic" THEN RPanic
    ELSE IF (IF n.tag = "some" THEN n.val ELSE flat_size) < o.val THEN RUnderflow
    ELSE get_record_at_offset(fl, o.val,
             (IF n.tag = "some" THEN n.val ELSE flat_size) - o.val)

\* get_by_seqno with no step of another thread between its loads
get_by_seqno(sq, fl, seqno) ==
    read_record(fl, get_pointer_to_value(sq, seqno),
                get_pointer_to_value(sq, seqno + 1), FlatFile_memory_size(fl))

(* ------------------------------- SeqNoIter ----------------------------- *)
SeqNoIter_new(seqno) == [seqno |-> seqno]

\* FlatFile::len, the end of the last record ("flat.size()")
FlatFile_len(fl) == Appender_size(fl)

\* what next_impl returns: a record, none, or a panic
next_impl(sq, fl, iter) ==
    read_record(fl, get_pointer_to_value(sq, iter.seqno),
                get_pointer_to_value(sq, iter.seqno + 1), FlatFile_len(fl))

\* the iterator after next_impl returned item: "self.seqno += 1" is past
\* the two `?`
advanced(iter, item) ==
    IF item.tag = "some" THEN [iter EXCEPT !.seqno = @ + 1] ELSE iter

\* the items a loop over the iterator is handed, each with the position
\* before and after the call of next() that yielded it, while no append runs;
\* the loop ends at the first next() that yields nothing
RECURSIVE drain(_, _, _, _)
yield(sq, fl, iter, item, fuel) ==
    IF item.tag # "some" THEN <<>>
    ELSE <<[val |-> item.val, from |-> iter.seqno,
            to |-> advanced(iter, item).seqno]>>
         \o drain(sq, fl, advanced(iter, item), fuel - 1)

drain(sq, fl, iter, fuel) ==
    IF fuel = 0 THEN <<>> ELSE yield(sq, fl, iter, next_impl(sq, fl, iter), fuel)

\* Database::iter_from_seqno(seqno)
iter_from_seqno(seqno) == Some(SeqNoIter_new(seqno))

Database_len(sq) == SeqNoIndex_size(sq)

Database_is_empty(sq) == Database_len(sq) = 0

saturating_sub(a, b) == IF a >= b THEN a - b ELSE 0

\* Database::last
Database_last(sq, fl) == get_by_seqno(sq, fl, saturating_sub(Database_len(sq), 1))

\* the check of Database::new on the opened streams
seqno_damaged(seqno_size, last_pointer, flat_size) ==
    IF seqno_size > 0 /\ last_pointer.tag = "panic" THEN "panic"
    ELSE IF seqno_size > 0
            /\ (IF last_pointer.tag = "some" THEN last_pointer.val >= flat_size
                ELSE TRUE)
    THEN "damaged"
    ELSE "ok"

validate(sq, fl) ==
    seqno_damaged(SeqNoIndex_size(sq),
                  get_pointer_to_value(sq, SeqNoIndex_size(sq) - 1),
                  FlatFile_memory_size(fl))

\* Database::new on the two files: "ok", "damaged" (SeqNoIndexDamaged) or
\* "panic"
Database_new_status(sq, fl) ==
    IF GrowableMmap_new_status(fl) = "panic" \/ GrowableMmap_new_status(sq) = "panic"
    THEN "panic"
    ELSE validate(Appender_new(sq), Appender_new(fl))

(* ------------------------------ the state ------------------------------ *)
VARIABLES
    file,       \* TRUE: Database::file (two backing files); FALSE: Database::memory
    open,       \* the Database value exists (FALSE after drop, until opened again)
    seqno,      \* the stream of SeqNoIndex
    flat,       \* the stream of FlatFile
    acked,      \* history: one [base, records] per append that returned Ok(Some(base))
    calls,      \* history: the number of append calls with a non-empty batch
    faults,     \* history: the OS calls that failed, <<stream, stop point>>,
                \* and the rejected batches, <<"reject", "none">>
    opens,      \* history: the number of Database::file calls on the existing directory
    last,       \* history: the last call and what it returned
    lock,       \* write_lock: 0 when free, else the thread holding it
    writers,    \* the threads inside Database::append, step by step
    reader,     \* a thread inside Database::get_by_seqno, step by step
    file_len,   \* appender.rs: the length of the Appender's file
    mmap,       \* appender.rs: the MaybeMmap and the bytes of the file
    actual_size, \* appender.rs: the Appender's atomic
    appends,    \* history: the number of Appender::append calls
    io_errors,  \* history: the number of OS errors Appender::append met
    appending,  \* appender.rs: the thread inside Appender::append
    reading,    \* appender.rs: a thread inside get_data or snapshot
    page_index, \* page_index.rs: PageIndex::bounds
    found,      \* page_index.rs: the last find since the last add_page
    view,       \* shared_mmap.rs: a SharedMmap
    sliced      \* shared_mmap.rs: the last slice call on it and its result

threads == <<lock, writers, reader>>

\* the Appender of appender.rs and the threads calling it
appender == <<file_len, mmap, actual_size, appends, io_errors, appending, reading>>

\* the PageIndex of page_index.rs and its caller
parts == <<page_index, found, view, sliced>>

\* the Database and the threads calling it
database == <<file, open, seqno, flat, acked, calls, faults, opens, last,
              lock, writers, reader>>

vars == <<file, open, seqno, flat, acked, calls, faults, opens, last,
          lock, writers, reader,
          file_len, mmap, actual_size, appends, io_errors, appending, reading,
          page_index, found, view, sliced>>

(* ------------------------------- inputs -------------------------------- *)
\* the batches of a run: every record is non-empty and its bytes are unique
\* in the run (byte i of the id-th record submitted is 10 * id + i)
Shapes ==
    UNION {[1..m -> 1..MaxRecLen] : m \in 1..MaxBatch}

Record(id, len) == [i \in 1..len |-> 10 * id + i]

Batch(shape, first_id) ==
    [j \in 1..Len(shape) |-> Record(first_id + j - 1, shape[j])]

Threads == {1, 2}

Idle == [pc |-> "idle", records |-> <<>>, initial_size |-> 0, update |-> <<>>,
         new_size |-> 0, ret |-> None]

NoRead == [pc |-> "idle", seqno |-> 0, offset |-> PNone, next |-> PNone,
           flat_size |-> 0, committed |-> <<>>, result |-> RNone]

Result(op, ret, base) == [op |-> op, ret |-> ret, base |-> base]

\* no Appender::append in progress; ret is what the last one returned
NotAppending ==
    [pc |-> "idle", actual_size |-> 0, new_file_size |-> 0, data |-> <<>>,
     written |-> 0, ret |-> "none"]

\* no get_data or snapshot in progress
NotReading ==
    [pc |-> "idle", op |-> "none", mapped |-> FALSE, seen |-> "none", size |-> 0,
     result |-> [tag |-> "none", len |-> 0]]

\* SharedMmap::new(mmap): the view of a whole map of map_len bytes (no map
\* has length 0); slice is base bytes into the map
SharedMmap_new(map_len) == [map_len |-> map_len, base |-> 0, len |-> map_len]

\* no slice call on the view yet
NoSlice == [called |-> FALSE, of |-> SharedMmap_new(1),
            start |-> [kind |-> "Unbounded", at |-> 0],
            end |-> [kind |-> "Unbounded", at |-> 0],
            result |-> [tag |-> "none", val |-> 0]]

\* results of PageIndex::find: None, or Some(PageDescriptor)
NoPage == [tag |-> "none", len |-> 0, offset |-> 0, number |-> 0]

\* no find since the last add_page
NoFind == [address |-> 0, result |-> NoPage, called |-> FALSE]

Init ==
    /\ file \in BOOLEAN
    /\ open = TRUE
    /\ seqno = Stream_create(file)
    /\ flat = Stream_create(file)
    /\ acked = <<>>
    /\ calls = 0
    /\ faults = <<>>
    /\ opens = 0
    /\ last = Result("new", "ok", None)
    /\ lock = 0
    /\ writers = [t \in Threads |-> Idle]
    /\ reader = NoRead
    /\ file_len = 0
    /\ mmap = [state |-> "uninit", bytes |-> <<>>, len |-> map_size]
    /\ actual_size = 0
    /\ appends = 0
    /\ io_errors = 0
    /\ appending = NotAppending
    /\ reading = NotReading
    /\ page_index = <<>>
    /\ found = NoFind
    /\ view = SharedMmap_new(1)
    /\ sliced = NoSlice

\* the number of records submitted so far (in acknowledged and failed calls)
submitted == calls * MaxBatch

(* ------------------- Database::append, as one call --------------------- *)
append_result(sq1, fl1, outcome, seqno_value) ==
    [seqno |-> sq1, flat |-> fl1,
     ret |-> outcome,
     base |-> IF outcome = "ok" THEN seqno_value ELSE None]

\* how the two `?` of append_get_seqno end: "ok", "err" (an Err of the index
\* or of the flat file) or "panic" (the assertion of grow_and_apply)
append_outcome(records, which) ==
    IF which = "seqno" \/ FlatFile_rejects(records) THEN "err"
    ELSE IF ~grows(total_len(records)) THEN "panic"
    ELSE IF which = "flat" THEN "err"
    ELSE "ok"

\* the test that never finds the slice empty
records_is_empty_never(records) == FALSE

\* records.is_empty(), the early return of append_get_seqno
records_is_empty(records) == records = <<>>

\* append_get_seqno(records) with the OS fault (stream `which` stops at
\* `stop`), or none: the streams and the value returned
append_get_seqno(f, sq, fl, records, which, stop) ==
    IF records_is_empty(records)
    THEN [seqno |-> sq, flat |-> fl, ret |-> "ok", base |-> None]
    ELSE append_result(
             SeqNoIndex_append(f, sq,
                 seqno_index_update(records, FlatFile_memory_size(fl)),
                 IF which = "seqno" THEN stop ELSE "none"),
             IF which = "seqno" THEN fl
             ELSE FlatFile_append(f, fl, records,
                                  IF which = "flat" THEN stop ELSE "none"),
             append_outcome(records, which),
             SeqNoIndex_append_value(sq,
                 seqno_index_update(records, FlatFile_memory_size(fl))))

\* the faults that can hit append_get_seqno(records) in the current state
FaultsOf(f, sq, fl, records) ==
    {<<"seqno", s>> : s \in Stops(f, sq, Len(records) * U64_SIZE)}
    \cup {<<"flat", s>> : s \in Stops(f, fl, total_len(records))}

Sequential ==
    lock = 0 /\ reader.pc = "idle" /\ \A t \in Threads : writers[t].pc = "idle"

Returned(r, op) ==
    /\ seqno' = r.seqno
    /\ flat' = r.flat
    /\ last' = Result(op, r.ret, r.base)

Acked(r, records) ==
    acked' = IF r.ret = "ok" /\ r.base # None
             THEN Append(acked, [base |-> r.base[1], records |-> records])
             ELSE acked

DbAppendOf(records, which, stop) ==
    /\ Returned(append_get_seqno(file, seqno, flat, records, which, stop), "append")
    /\ Acked(append_get_seqno(file, seqno, flat, records, which, stop), records)

DbAppend(shape) ==
    /\ open /\ Sequential
    /\ calls < MaxAppends
    /\ DbAppendOf(Batch(shape, submitted + 1), "none", "none")
    /\ calls' = calls + 1
    /\ UNCHANGED <<parts, appender, file, open, faults, opens, threads>>

DbAppendFault(shape) ==
    /\ open /\ Sequential
    /\ calls < MaxAppends
    /\ Len(faults) < MaxFaults
    /\ \E flt \in FaultsOf(file, seqno, flat, Batch(shape, submitted + 1)) :
            /\ DbAppendOf(Batch(shape, submitted + 1), flt[1], flt[2])
            /\ faults' = Append(faults, flt)
    /\ calls' = calls + 1
    /\ UNCHANGED <<parts, appender, file, open, opens, threads>>

DbAppendEmpty ==
    /\ open /\ Sequential
    /\ DbAppendOf(<<>>, "none", "none")
    /\ UNCHANGED <<parts, appender, file, open, calls, faults, opens, threads>>

\* the batches that hold a record of no bytes
ZeroShapes ==
    {s \in UNION {[1..m -> 0..MaxRecLen] : m \in 1..MaxBatch} :
        \E i \in 1..Len(s) : s[i] = 0}

\* an append of a batch that holds a record of no bytes; the call is entered
\* in `faults` as <<"reject", "none">>: no OS call failed
DbAppendZero(shape) ==
    /\ open /\ Sequential
    /\ calls < MaxAppends
    /\ Len(faults) < MaxFaults
    /\ DbAppendOf(Batch(shape, submitted + 1), "none", "none")
    /\ faults' = Append(faults, <<"reject", "none">>)
    /\ calls' = calls + 1
    /\ UNCHANGED <<parts, appender, file, open, opens, threads>>

(* --------------------------- close and open ---------------------------- *)
\* what is left of a stream when the process drops it: the file.  A drop
\* right after a call that stopped at a fault ("stop") leaves the files as a
\* process that died at that point of the call leaves them.
Dropped(st) ==
    [st EXCEPT !.index = <<>>, !.maps = <<>>, !.active = None, !.size = 0]

DbClose ==
    /\ open /\ file /\ Sequential
    /\ opens < MaxOpens
    /\ open' = FALSE
    /\ seqno' = Dropped(seqno)
    /\ flat' = Dropped(flat)
    /\ last' = Result(IF last.ret = "err" THEN "stop" ELSE "drop", "ok", None)
    /\ UNCHANGED <<parts, appender, file, acked, calls, faults, opens, threads>>

Opened(status) ==
    /\ last' = Result("open", status, None)
    /\ open' = (status = "ok")
    /\ seqno' = IF status = "ok" THEN Appender_new(seqno) ELSE seqno
    /\ flat' = IF status = "ok" THEN Appender_new(flat) ELSE flat

DbOpen ==
    /\ ~open /\ last.op \in {"drop", "stop"}
    /\ Opened(Database_new_status(seqno, flat))
    /\ opens' = opens + 1
    /\ UNCHANGED <<parts, appender, file, acked, calls, faults, threads>>

Next ==
    \/ \E shape \in Shapes : DbAppend(shape)
    \/ \E shape \in Shapes : DbAppendFault(shape)
    \/ DbAppendEmpty
    \/ \E shape \in ZeroShapes : DbAppendZero(shape)
    \/ DbClose
    \/ DbOpen

Spec == Init /\ [][Next]_vars

(* --------------- Database::append, step by step (threads) -------------- *)
\* a lock() that never blocks
can_lock_unguarded(l) == TRUE

\* write_lock.lock(): the guard is taken when no thread holds it
can_lock(l) == l = 0

\* the statements of append_get_seqno between which another thread can run;
\* grow_and_apply runs under the stream's write lock, a read under its read
\* lock: a thread is inside grow_and_apply of a stream from storage.write()
\* to its return
inside_grow(pc) == \E t \in Threads : writers[t].pc = pc

\* storage.read() of get_ref_and_apply, which get_data reaches for an offset
\* below the published size: granted while no thread holds storage.write()
storage_read(st, offset, pc) == offset >= Appender_size(st) \/ ~inside_grow(pc)

WStart(t, shape) ==
    /\ open /\ writers[t].pc = "idle"
    /\ calls < MaxCalls
    /\ writers' = [writers EXCEPT ![t] =
                     [Idle EXCEPT !.pc = "lock",
                                  !.records = Batch(shape, submitted + 1)]]
    /\ calls' = calls + 1
    /\ UNCHANGED <<parts, appender, file, open, seqno, flat, acked, faults, opens, last, lock, reader>>

WLock(t) ==
    /\ writers[t].pc = "lock"
    /\ can_lock(lock)
    /\ lock' = t
    /\ writers' = [writers EXCEPT ![t].pc = "initial_size"]
    /\ UNCHANGED <<parts, appender, file, open, seqno, flat, acked, calls, faults, opens, last, reader>>

\* initial_size = flatfile.memory_size() and the loop over the records
WInitialSize(t) ==
    /\ writers[t].pc = "initial_size"
    /\ writers' = [writers EXCEPT
                     ![t].pc = "seqno_load",
                     ![t].initial_size = FlatFile_memory_size(flat),
                     ![t].update = seqno_index_update(writers[t].records,
                                                      FlatFile_memory_size(flat))]
    /\ UNCHANGED <<parts, appender, file, open, seqno, flat, acked, calls, faults, opens, last, lock, reader>>

\* SeqNoIndex::append: current_seqno, and the load of Appender::append
WSeqnoLoad(t) ==
    /\ writers[t].pc = "seqno_load"
    /\ writers' = [writers EXCEPT
                     ![t].pc = "seqno_grow",
                     ![t].ret = SeqNoIndex_append_value(seqno, writers[t].update),
                     ![t].new_size = Appender_size(seqno)
                                     + Len(writers[t].update) * U64_SIZE]
    /\ UNCHANGED <<parts, appender, file, open, seqno, flat, acked, calls, faults, opens, last, lock, reader>>

WSeqnoWrite(t) ==
    /\ writers[t].pc = "seqno_grow"
    /\ ~inside_grow("seqno_write")
    /\ writers' = [writers EXCEPT ![t].pc = "seqno_write"]
    /\ UNCHANGED <<parts, appender, file, open, seqno, flat, acked, calls, faults, opens, last, lock, reader>>

WSeqnoGrow(t) ==
    /\ writers[t].pc = "seqno_write"
    /\ seqno' = grow_and_apply(file, seqno, Len(writers[t].update) * U64_SIZE,
                               seqno_bytes(writers[t].update), "none")
    /\ writers' = [writers EXCEPT ![t].pc = "seqno_store"]
    /\ UNCHANGED <<parts, appender, file, open, flat, acked, calls, faults, opens, last, lock, reader>>

WSeqnoStore(t) ==
    /\ writers[t].pc = "seqno_store"
    /\ seqno' = publish(seqno, writers[t].new_size, "none")
    /\ writers' = [writers EXCEPT ![t].pc = "flat_load"]
    /\ UNCHANGED <<parts, appender, file, open, flat, acked, calls, faults, opens, last, lock, reader>>

\* FlatFile::append: the load of Appender::append
WFlatLoad(t) ==
    /\ writers[t].pc = "flat_load"
    /\ writers' = [writers EXCEPT
                     ![t].pc = "flat_grow",
                     ![t].new_size = Appender_size(flat) + total_len(writers[t].records)]
    /\ UNCHANGED <<parts, appender, file, open, seqno, flat, acked, calls, faults, opens, last, lock, reader>>

WFlatWrite(t) ==
    /\ writers[t].pc = "flat_grow"
    /\ ~inside_grow("flat_write")
    /\ writers' = [writers EXCEPT ![t].pc = "flat_write"]
    /\ UNCHANGED <<parts, appender, file, open, seqno, flat, acked, calls, faults, opens, last, lock, reader>>

WFlatGrow(t) ==
    /\ writers[t].pc = "flat_write"
    /\ flat' = grow_and_apply(file, flat, total_len(writers[t].records),
                              Concat(writers[t].records), "none")
    /\ writers' = [writers EXCEPT ![t].pc = "flat_store"]
    /\ UNCHANGED <<parts, appender, file, open, seqno, acked, calls, faults, opens, last, lock, reader>>

WFlatStore(t) ==
    /\ writers[t].pc = "flat_store"
    /\ flat' = publish(flat, writers[t].new_size, "none")
    /\ writers' = [writers EXCEPT ![t].pc = "return"]
    /\ UNCHANGED <<parts, appender, file, open, seqno, acked, calls, faults, opens, last, lock, reader>>

\* Ok(seqno): the guard is dropped
WReturn(t) ==
    /\ writers[t].pc = "return"
    /\ lock' = IF lock = t THEN 0 ELSE lock
    /\ acked' = Append(acked, [base |-> writers[t].ret[1],
                               records |-> writers[t].records])
    /\ last' = Result("append", "ok", writers[t].ret)
    /\ writers' = [writers EXCEPT ![t] = Idle]
    /\ UNCHANGED <<parts, appender, file, open, seqno, flat, calls, faults, opens, reader>>

\* thread t appends no records while another thread holds the write lock
AppendEmpty(t) ==
    /\ open /\ writers[t].pc = "idle"
    /\ lock # 0 /\ lock # t
    /\ DbAppendOf(<<>>, "none", "none")
    /\ UNCHANGED <<parts, appender, file, open, calls, faults, opens, threads>>

(* -------------- Database::get_by_seqno, step by step (a thread) -------- *)
\* all records of the appends that returned, in the order of the returns
AllAcked == Concat([i \in 1..Len(acked) |-> acked[i].records])

RStart(k) ==
    /\ open /\ reader.pc = "idle"
    /\ reader' = [NoRead EXCEPT
                    !.pc = "offset", !.seqno = k,
                    !.committed = IF k < Len(AllAcked) THEN Some(AllAcked[k + 1])
                                  ELSE None]
    /\ UNCHANGED <<parts, appender, file, open, seqno, flat, acked, calls, faults, opens, last, lock, writers>>

\* offset = get_pointer_to_value(seqno)?
ROffset ==
    /\ reader.pc = "offset"
    /\ storage_read(seqno, reader.seqno * U64_SIZE, "seqno_write")
    /\ reader' = [reader EXCEPT
                    !.offset = get_pointer_to_value(seqno, reader.seqno),
                    !.pc = "next"]
    /\ UNCHANGED <<parts, appender, file, open, seqno, flat, acked, calls, faults, opens, last, lock, writers>>

\* get_pointer_to_value(seqno + 1)
RNext ==
    /\ reader.pc = "next"
    /\ storage_read(seqno, (reader.seqno + 1) * U64_SIZE, "seqno_write")
    /\ reader' = [reader EXCEPT
                    !.next = get_pointer_to_value(seqno, reader.seqno + 1),
                    !.pc = "flat_size"]
    /\ UNCHANGED <<parts, appender, file, open, seqno, flat, acked, calls, faults, opens, last, lock, writers>>

\* unwrap_or_else(|| flatfile.memory_size())
RFlatSize ==
    /\ reader.pc = "flat_size"
    /\ reader' = [reader EXCEPT
                    !.flat_size = IF reader.next.tag = "some" THEN 0
                                  ELSE FlatFile_memory_size(flat),
                    !.pc = "read"]
    /\ UNCHANGED <<parts, appender, file, open, seqno, flat, acked, calls, faults, opens, last, lock, writers>>

\* length = next_offset - offset; get_record_at_offset(offset, length)
RRead ==
    /\ reader.pc = "read"
    /\ reader.offset.tag = "some" => storage_read(flat, reader.offset.val, "flat_write")
    /\ reader' = [reader EXCEPT
                    !.result = read_record(flat, reader.offset, reader.next,
                                           reader.flat_size),
                    !.pc = "done"]
    /\ UNCHANGED <<parts, appender, file, open, seqno, flat, acked, calls, faults, opens, last, lock, writers>>

RDone ==
    /\ reader.pc = "done"
    /\ reader' = NoRead
    /\ UNCHANGED <<parts, appender, file, open, seqno, flat, acked, calls, faults, opens, last, lock, writers>>

\* the statements of a call in progress, of either thread
WriterSteps ==
    \/ \E t \in Threads : WLock(t)
    \/ \E t \in Threads : WInitialSize(t)
    \/ \E t \in Threads : WSeqnoLoad(t)
    \/ \E t \in Threads : WSeqnoWrite(t)
    \/ \E t \in Threads : WSeqnoGrow(t)
    \/ \E t \in Threads : WSeqnoStore(t)
    \/ \E t \in Threads : WFlatLoad(t)
    \/ \E t \in Threads : WFlatWrite(t)
    \/ \E t \in Threads : WFlatGrow(t)
    \/ \E t \in Threads : WFlatStore(t)
    \/ \E t \in Threads : WReturn(t)

\* batches whose records have one length
UniformShapes == {shape \in Shapes : \A j \in 1..Len(shape) : shape[j] = shape[1]}

\* two threads that append
NextWriters ==
    \/ \E t \in Threads, shape \in UniformShapes : WStart(t, shape)
    \/ WriterSteps
    \/ \E t \in Threads : AppendEmpty(t)

SpecWriters == Init /\ [][NextWriters]_vars

\* two threads that append and a thread that reads
NextConc ==
    \/ \E t \in Threads, shape \in Shapes : WStart(t, shape)
    \/ WriterSteps
    \/ \E t \in Threads : AppendEmpty(t)
    \/ \E k \in 0..Database_len(seqno) : RStart(k)
    \/ ROffset
    \/ RNext
    \/ RFlatSize
    \/ RRead
    \/ RDone

SpecConc == Init /\ [][NextConc]_vars

(* --------- Appender of appender.rs: one map of map_size bytes ---------- *)
\* Appender::append(size_inc, f), a statement at a time.  The block of lines
\* 91-104 leaves the function at each `?`, so `result` is Ok whenever line
\* 106 is reached and the set_len of lines 107-109 never runs.
returned(ret) == [NotAppending EXCEPT !.ret = ret]

\* there is an Appender: the last Appender::new returned Ok
constructed(m) == m.state \notin {"MmapTooSmall", "Mmap"}

AppendCall(n) ==
    /\ appending.pc = "idle"
    /\ constructed(mmap)
    /\ appends < MaxAppends
    /\ appends' = appends + 1
    /\ appending' = [NotAppending EXCEPT !.pc = "load",
                                         !.data = Record(appends + 1, n)]
    /\ UNCHANGED <<parts, database, file_len, mmap, actual_size, io_errors, reading>>

\* an append that proceeds whatever the map's length
AppendLoadUnchecked ==
    /\ appending.pc = "load"
    /\ appending' = [appending EXCEPT
                       !.pc = "set_len",
                       !.actual_size = actual_size,
                       !.new_file_size = actual_size + Len(appending.data)]
    /\ UNCHANGED <<parts, database, file_len, mmap, actual_size, appends, io_errors, reading>>

\* the load of actual_size and the test against the map's length
AppendLoad ==
    /\ appending.pc = "load"
    /\ appending' =
          IF mmap.len < actual_size + Len(appending.data)
          THEN returned("MmapTooSmall")
          ELSE [appending EXCEPT
                  !.pc = "set_len",
                  !.actual_size = actual_size,
                  !.new_file_size = actual_size + Len(appending.data)]
    /\ UNCHANGED <<parts, database, file_len, mmap, actual_size, appends, io_errors, reading>>

AppendSetLen ==
    /\ appending.pc = "set_len"
    /\ file_len' = appending.new_file_size
    /\ appending' = [appending EXCEPT !.pc = "init"]
    /\ UNCHANGED <<parts, database, mmap, actual_size, appends, io_errors, reading>>

\* MaybeMmap::init: nothing on a Mmap; on an Uninit the map is made and the
\* enum is overwritten in place, which takes more than one store
AppendInit ==
    /\ appending.pc = "init"
    /\ mmap' = IF mmap.state = "mmap" THEN mmap ELSE [mmap EXCEPT !.state = "writing"]
    /\ appending' = [appending EXCEPT
                       !.pc = IF mmap.state = "mmap" THEN "write" ELSE "init_done"]
    /\ UNCHANGED <<parts, database, file_len, actual_size, appends, io_errors, reading>>

AppendInitDone ==
    /\ appending.pc = "init_done"
    /\ mmap' = [mmap EXCEPT !.state = "mmap"]
    /\ appending' = [appending EXCEPT !.pc = "write"]
    /\ UNCHANGED <<parts, database, file_len, actual_size, appends, io_errors, reading>>

\* each append written from the start of the map
AppendWriteAtStart ==
    /\ appending.pc = "write"
    /\ appending.written < Len(appending.data)
    /\ mmap' = [mmap EXCEPT !.bytes =
                  WriteAt(@, appending.written,
                          <<appending.data[appending.written + 1]>>)]
    /\ appending' = [appending EXCEPT !.written = @ + 1]
    /\ UNCHANGED <<parts, database, file_len, actual_size, appends, io_errors, reading>>

\* f(&mut mmap[actual_size..new_file_size]), a byte at a time
AppendWrite ==
    /\ appending.pc = "write"
    /\ appending.written < Len(appending.data)
    /\ mmap' = [mmap EXCEPT !.bytes =
                  WriteAt(@, appending.actual_size + appending.written,
                          <<appending.data[appending.written + 1]>>)]
    /\ appending' = [appending EXCEPT !.written = @ + 1]
    /\ UNCHANGED <<parts, database, file_len, actual_size, appends, io_errors, reading>>

\* the size stored by the step that calls flush, before its result is known
AppendFlushStores ==
    /\ appending.pc = "write"
    /\ appending.written = Len(appending.data)
    /\ actual_size' = appending.new_file_size
    /\ appending' = [appending EXCEPT !.pc = "store"]
    /\ UNCHANGED <<parts, database, file_len, mmap, appends, io_errors, reading>>

AppendFlush ==
    /\ appending.pc = "write"
    /\ appending.written = Len(appending.data)
    /\ appending' = [appending EXCEPT !.pc = "store"]
    /\ UNCHANGED <<parts, database, file_len, mmap, actual_size, appends, io_errors, reading>>

AppendStore ==
    /\ appending.pc = "store"
    /\ actual_size' = appending.new_file_size
    /\ appending' = returned("ok")
    /\ UNCHANGED <<parts, database, file_len, mmap, appends, io_errors, reading>>

\* the `?` of set_len, of init (map_mut) and of flush
AppendFails ==
    /\ io_errors < MaxFaults
    /\ \/ appending.pc = "set_len" /\ appending' = returned("Write")
       \/ /\ appending.pc = "init" /\ mmap.state = "uninit"
          /\ appending' = returned("Mmap")
       \/ /\ appending.pc = "write" /\ appending.written = Len(appending.data)
          /\ appending' = returned("Write")
    /\ io_errors' = io_errors + 1
    /\ UNCHANGED <<parts, database, file_len, mmap, actual_size, appends, reading>>

\* what a read of the MaybeMmap finds.  The cell is written by init with no
\* synchronisation (an UnsafeCell behind &self): a read that races with it
\* finds the old enum, the new one, or a mix of the two.
as_ref(state) == IF state = "writing" THEN {"uninit", "mmap", "torn"} ELSE {state}

\* &mmap[0..size] of what as_ref gave: the first size bytes of the map, a
\* panic (an index past the end of &[]), or size bytes that are not the map's
index_to(seen, size) ==
    IF seen = "mmap" \/ size = 0 THEN [tag |-> "slice", len |-> size]
    ELSE IF seen = "empty" THEN [tag |-> "panic", len |-> 0]
    ELSE [tag |-> "wild", len |-> size]

\* get_data(f) with no append in progress: None on an Uninit, else the
\* slice &mmap[0..actual_size] handed to f
get_data(m, size) ==
    IF m.state = "uninit" THEN None ELSE Some(ReadRange(m.bytes, 0, size))

\* a thread calls get_data(f) or snapshot()
ReadCall(op) ==
    /\ reading.pc = "idle"
    /\ constructed(mmap)
    /\ reading' = [NotReading EXCEPT !.pc = "as_ref", !.op = op,
                                     !.mapped = (mmap.state = "mmap")]
    /\ UNCHANGED <<parts, database, file_len, mmap, actual_size, appends, io_errors, appending>>

\* as_ref()? in get_data, as_ref().unwrap_or(&[]) in snapshot
ReadAsRef ==
    /\ reading.pc = "as_ref"
    /\ \E s \in as_ref(mmap.state) :
          reading' =
            IF s = "uninit" /\ reading.op = "get_data"
            THEN [reading EXCEPT !.pc = "done", !.seen = s]
            ELSE [reading EXCEPT !.pc = "load",
                                 !.seen = IF s = "uninit" THEN "empty" ELSE s]
    /\ UNCHANGED <<parts, database, file_len, mmap, actual_size, appends, io_errors, appending>>

\* the load of actual_size and the slice handed to f, or returned
ReadLoad ==
    /\ reading.pc = "load"
    /\ reading' = [reading EXCEPT !.pc = "done", !.size = actual_size,
                                  !.result = index_to(reading.seen, actual_size)]
    /\ UNCHANGED <<parts, database, file_len, mmap, actual_size, appends, io_errors, appending>>

\* the thread lets go of what it was handed
ReadDrop ==
    /\ reading.pc = "done"
    /\ reading' = NotReading
    /\ UNCHANGED <<parts, database, file_len, mmap, actual_size, appends, io_errors, appending>>

\* the map sizes an Appender is made with
MapSizes == {map_size - 2, map_size}

\* the Appender is dropped, if there is one, and Appender::new(path, ms) is
\* called on the file it left: the size is the file's length, a file longer
\* than the map is refused, a file that is not empty is mapped at once
AppenderNew(ms) ==
    /\ appending.pc = "idle" /\ reading.pc = "idle"
    /\ \/ /\ ms < file_len
          /\ mmap' = [mmap EXCEPT !.state = "MmapTooSmall", !.len = ms]
          /\ UNCHANGED <<actual_size, io_errors>>
       \/ /\ ms >= file_len
          /\ mmap' = [mmap EXCEPT !.state = IF file_len > 0 THEN "mmap" ELSE "uninit",
                                  !.len = ms]
          /\ actual_size' = file_len
          /\ UNCHANGED io_errors
       \/ /\ ms >= file_len /\ file_len > 0
          /\ io_errors < MaxFaults
          /\ io_errors' = io_errors + 1
          /\ mmap' = [mmap EXCEPT !.state = "Mmap", !.len = ms]
          /\ UNCHANGED actual_size
    /\ UNCHANGED <<parts, database, file_len, appends, appending, reading>>

\* one thread that appends (the callers serialize the appends) and one that
\* reads
NextAppender ==
    \/ \E n \in 1..MaxRecLen : AppendCall(n)
    \/ AppendLoad
    \/ AppendSetLen
    \/ AppendInit
    \/ AppendInitDone
    \/ AppendWrite
    \/ AppendFlush
    \/ AppendStore
    \/ AppendFails
    \/ \E op \in {"get_data", "snapshot"} : ReadCall(op)
    \/ ReadAsRef
    \/ ReadLoad
    \/ ReadDrop
    \/ \E ms \in MapSizes : AppenderNew(ms)

SpecAppender == Init /\ [][NextAppender]_vars

(* ------------------- PageIndex of page_index.rs ------------------------ *)
\* the pages of a run and the ends they are given
MaxPages == 4

MaxEnd == 6

\* assert!(start < end)
add_page_assert(bounds, end) == (IF bounds = <<>> THEN 0 ELSE Last(bounds)) < end

add_page(bounds, end) == IF bounds = <<>> THEN <<0, end>> ELSE Append(bounds, end)

PageIndex_memory_size(bounds) == IF bounds = <<>> THEN 0 ELSE Last(bounds)

\* a descriptor whose number is the position in the slice at hand
PositionInSlice(bounds, offset, end_position) ==
    [tag |-> "some",
     len |-> bounds[end_position + 1] - bounds[end_position],
     offset |-> bounds[end_position],
     number |-> end_position - 1]

\* Some(PageDescriptor { len, offset, number }) for the page that ends at
\* bounds[end_position] (bounds[end_position + 1] here: sequences start at 1)
PageDescriptor(bounds, offset, end_position) ==
    [tag |-> "some",
     len |-> bounds[end_position + 1] - bounds[end_position],
     offset |-> bounds[end_position],
     number |-> offset + end_position - 1]

RECURSIVE find_impl(_, _, _)
find_impl(bounds, offset, address) ==
    IF Len(bounds) < 2 THEN NoPage
    ELSE IF bounds[Len(bounds) \div 2] <= address
            /\ address < bounds[Len(bounds) \div 2 + 1]
    THEN PageDescriptor(bounds, offset, Len(bounds) \div 2)
    ELSE IF address < bounds[Len(bounds) \div 2]
    THEN find_impl(SubSeq(bounds, 1, Len(bounds) \div 2), offset, address)
    ELSE find_impl(SubSeq(bounds, Len(bounds) \div 2 + 1, Len(bounds)),
                   offset + Len(bounds) \div 2, address)

PageIndex_find(bounds, address) == find_impl(bounds, 0, address)

\* add_page(end) with an end above the last one (else the assertion panics)
AddPage(end) ==
    /\ Len(page_index) <= MaxPages
    /\ add_page_assert(page_index, end)
    /\ page_index' = add_page(page_index, end)
    /\ found' = NoFind
    /\ UNCHANGED <<database, appender, view, sliced>>

FindPage(address) ==
    /\ found' = [address |-> address, called |-> TRUE,
                 result |-> PageIndex_find(page_index, address)]
    /\ UNCHANGED <<database, appender, page_index, view, sliced>>

NextPages ==
    \/ \E end \in 1..MaxEnd : AddPage(end)
    \/ \E address \in 0..(MaxEnd + 1) : FindPage(address)

SpecPages == Init /\ [][NextPages]_vars

(* ------------------ SharedMmap of shared_mmap.rs ----------------------- *)
\* the maps of a run have up to MaxLen bytes; usize is scaled to 4 bits
MaxLen == 3

USIZE == 16

\* a usize, the return of None, and a panic
Value(x) == [tag |-> "ok", val |-> x]

Refused == [tag |-> "none", val |-> 0]

Panicked == [tag |-> "panic", val |-> 0]

\* a - b on usize: below zero it panics (overflow checks on) or wraps
usize_sub(a, b) ==
    IF a >= b THEN {Value(a - b)} ELSE {Panicked, Value(a - b + USIZE)}

\* the match on bounds.start_bound()
start_bound(len, b) ==
    IF b.kind = "Included"
    THEN IF b.at >= len THEN {Value(b.at)} ELSE {Refused}
    ELSE IF b.kind = "Excluded"
    THEN IF b.at + 1 >= len THEN {Value(b.at + 1)} ELSE {Refused}
    ELSE {Value(0)}

\* the match on bounds.end_bound()
end_bound(len, b) ==
    IF b.kind = "Included"
    THEN IF b.at >= len THEN {Value(b.at)} ELSE {Refused}
    ELSE IF b.kind = "Excluded"
    THEN {IF e.tag = "ok" /\ e.val < len THEN Refused ELSE e : e \in usize_sub(b.at, 1)}
    ELSE usize_sub(len, 1)

\* len = end - start, None when it is 0, else the view start bytes further
sliced_view(v, start, d) ==
    IF d.tag # "ok" THEN d
    ELSE IF d.val = 0 THEN Refused
    ELSE [tag |-> "some",
          val |-> [map_len |-> v.map_len, base |-> v.base + start, len |-> d.val]]

\* SharedMmap::slice(bounds): the results the call can have
slice(v, start, end) ==
    UNION {IF s.tag # "ok" THEN {s}
           ELSE UNION {IF e.tag # "ok" THEN {e}
                       ELSE {sliced_view(v, s.val, d) : d \in usize_sub(e.val, s.val)} :
                         e \in end_bound(v.len, end)} :
             s \in start_bound(v.len, start)}

\* the bounds of a range: start.., ..end, start..end, start..=end, (Excluded
\* starts are not written with range syntax but are RangeBounds)
RangeBounds ==
    {[kind |-> "Unbounded", at |-> 0]}
    \cup {[kind |-> k, at |-> a] : k \in {"Included", "Excluded"}, a \in 0..(MaxLen + 1)}

ViewNew(map_len) ==
    /\ view' = SharedMmap_new(map_len)
    /\ sliced' = NoSlice
    /\ UNCHANGED <<database, appender, page_index, found>>

\* slice on the view; the view it returns, if any, is the view from then on
\* (while it is no longer than MaxLen and begins no further than MaxLen in)
ViewSlice(start, end) ==
    /\ \E r \in slice(view, start, end) :
          /\ sliced' = [called |-> TRUE, of |-> view, start |-> start, end |-> end,
                        result |-> r]
          /\ view' = IF r.tag = "some" /\ r.val.len <= MaxLen /\ r.val.base <= MaxLen
                     THEN r.val ELSE view
    /\ UNCHANGED <<database, appender, page_index, found>>

NextViews ==
    \/ \E map_len \in 1..MaxLen : ViewNew(map_len)
    \/ \E start \in RangeBounds, end \in RangeBounds : ViewSlice(start, end)

SpecViews == Init /\ [][NextViews]_vars

(* ============================ properties ============================== *)
\* the records stored at the sequence numbers an append returned
Readable(a) ==
    \A j \in 1..Len(a.records) :
        get_by_seqno(seqno, flat, a.base + j - 1) = RSome(a.records[j])

\* C1: every record of every append that returned Ok(seqno) is read back
\* byte for byte by get_by_seqno(seqno + i), whatever was appended afterwards
\* and whether or not a segment rolled over in between.
RoundTrip ==
    open => \A i \in 1..Len(acked) : Readable(acked[i])

\* the round trip in the runs without an I/O fault
RoundTripNoFault ==
    (open /\ faults = <<>>) => \A i \in 1..Len(acked) : Readable(acked[i])

\* the reads of all sequence numbers a run can reach
MaxSeqno == (MaxAppends + 1) * MaxBatch

Reads(sq, fl) == [k \in 0..MaxSeqno |-> get_by_seqno(sq, fl, k)]

FailedAppend == calls' = calls + 1 /\ last'.op = "append" /\ last'.ret = "err"

\* C4: an append that returns an error (the index append or the payload
\* append failed) leaves len() and the result of every get_by_seqno as they
\* were before the call.
FailedAppendChangesNothing ==
    [][FailedAppend =>
          /\ Database_len(seqno') = Database_len(seqno)
          /\ Reads(seqno', flat') = Reads(seqno, flat)]_vars

\* C5: len() is the number of records in the batches whose append returned
\* success, and is_empty() holds exactly when that number is zero.
LenCountsAcked ==
    open => /\ Database_len(seqno) = Len(AllAcked)
            /\ Database_is_empty(seqno) <=> (Len(AllAcked) = 0)

\* C6: after a close and a reopen of a file-backed database, len() and the
\* records read at 0 .. len() - 1 are the records successfully appended so
\* far, in order.
ReopenPreserves ==
    (open /\ opens > 0) =>
        /\ Database_len(seqno) = Len(AllAcked)
        /\ \A k \in 0..(Len(AllAcked) - 1) :
                get_by_seqno(seqno, flat, k) = RSome(AllAcked[k + 1])

\* the same in the runs without an I/O fault
ReopenPreservesNoFault ==
    (open /\ opens > 0 /\ faults = <<>>) =>
        /\ Database_len(seqno) = Len(AllAcked)
        /\ \A k \in 0..(Len(AllAcked) - 1) :
                get_by_seqno(seqno, flat, k) = RSome(AllAcked[k + 1])

\* the stream a fault hit
StreamOf(which) == IF which = "seqno" THEN seqno ELSE flat

\* GrowableMmap::new(file) returns, and the stream it builds holds the
\* bytes [0, logical_size) of the header and nothing else
Exposes(new, st) ==
    /\ memory_size(new.index) = st.header
    /\ \A a \in 0..(st.header - 1) :
          get_ref_and_apply(new, a) = RSome(ReadRange(st.bytes, a, st.header - a))
    /\ get_ref_and_apply(new, st.header) = RNone

Recovers(st) ==
    GrowableMmap_new_status(st) = "ok" /\ Exposes(GrowableMmap_new(st), st)

\* the process stopped in grow_and_apply after set_len and before the header
\* was stored
StoppedInGrow ==
    /\ ~open /\ last.op = "stop"
    /\ Last(faults)[2] \in {"mmap", "protect", "flush"}

\* C7: when the process stops inside grow_and_apply on a file (after
\* set_len, after the payload was written or flushed, before the header is
\* stored), GrowableMmap::new on that file succeeds and exposes exactly the
\* bytes [0, logical_size) of the last stored header.
CrashRecoverable ==
    StoppedInGrow => Recovers(StreamOf(Last(faults)[1]))

\* an append was interrupted after its index append, in its payload append
InterruptedInFlat == faults # <<>> /\ Last(faults)[1] = "flat"

\* C8: after an append interrupted between its index append and its payload
\* append, the stale index entries are unreachable (no read returns a
\* payload for them), the database can still be opened, and after the next
\* successful append every k < len() reads the k-th record successfully
\* appended.
InterruptedAppendReconciles ==
    InterruptedInFlat =>
        /\ (open /\ last.op = "append" /\ last.ret = "err") =>
              \A k \in Len(AllAcked)..(Database_len(seqno) - 1) :
                  get_by_seqno(seqno, flat, k).tag # "some"
        /\ (~open /\ last.op = "stop") => Database_new_status(seqno, flat) = "ok"
        /\ (open /\ last.op = "append" /\ last.ret = "ok" /\ last.base # None) =>
              /\ Database_len(seqno) = Len(AllAcked)
              /\ \A k \in 0..(Len(AllAcked) - 1) :
                    get_by_seqno(seqno, flat, k) = RSome(AllAcked[k + 1])

\* the k-th entry of the index, as SeqNoIndex reads it
Entry(k) == get_pointer_to_value(seqno, k)

\* C10: after any sequence of appends, failed ones included, the entries of
\* the index are strictly increasing and there are as many entries as
\* records stored.
IndexStrictlyIncreasing ==
    open =>
        /\ \A k \in 0..(Database_len(seqno) - 2) :
              /\ Entry(k).tag = "some" /\ Entry(k + 1).tag = "some"
              /\ Entry(k).val < Entry(k + 1).val
        /\ Database_len(seqno) = Len(AllAcked)

\* the same in the runs without an I/O fault
IndexStrictlyIncreasingNoFault ==
    (open /\ faults = <<>>) =>
        /\ \A k \in 0..(Database_len(seqno) - 2) :
              /\ Entry(k).tag = "some" /\ Entry(k + 1).tag = "some"
              /\ Entry(k).val < Entry(k + 1).val
        /\ Database_len(seqno) = Len(AllAcked)

(* -------------------------- threads: properties ------------------------ *)
\* the batches that were given their sequence numbers: those of the appends
\* that returned and those of the appends past SeqNoIndex::append's load
Assigned ==
    {acked[i] : i \in 1..Len(acked)}
    \cup {[base |-> writers[t].ret[1], records |-> writers[t].records] :
            t \in {u \in Threads : writers[u].ret # None}}

RecordsAt(k) ==
    {a.records[k - a.base + 1] :
        a \in {b \in Assigned : b.base <= k /\ k < b.base + Len(b.records)}}

\* C2: while a thread appends, a get_by_seqno(k) of another thread returns
\* none or exactly the complete record k (never a truncated record, extra
\* bytes or unwritten bytes), and for k below the len() before the append it
\* returns the record k of before the append.
ReaderSeesNoneOrComplete ==
    reader.pc = "done" =>
        /\ \/ reader.result = RNone
           \/ \E rec \in RecordsAt(reader.seqno) : reader.result = RSome(rec)
        /\ reader.committed # None => reader.result = RSome(reader.committed[1])

\* C3: in every reachable state, the state between the index append and the
\* payload append of an append in progress included, every k < len() has its
\* payload published: entry k is below the flat size and get_by_seqno(k)
\* returns a record.
EveryEntryHasPayload ==
    open =>
        \A k \in 0..(Database_len(seqno) - 1) :
            /\ Entry(k).tag = "some"
            /\ Entry(k).val < FlatFile_memory_size(flat)
            /\ get_by_seqno(seqno, flat, k).tag = "some"

\* the statements of append_get_seqno under the write lock
InnerSteps ==
    {"initial_size", "seqno_load", "seqno_grow", "seqno_write", "seqno_store",
     "flat_load", "flat_grow", "flat_write", "flat_store", "return"}

Overlap(a, b) == a.base < b.base + Len(b.records) /\ b.base < a.base + Len(a.records)

\* C9: two threads that call append at the same time never interleave the
\* inner steps of the calls (the load of the flat size, the index append and
\* the payload append of one call are all before or all after those of the
\* other); each batch gets a contiguous range of sequence numbers, the
\* ranges are disjoint, and every record is read back at its number.
AppendsSerialized ==
    /\ \A t1 \in Threads, t2 \in Threads :
          (writers[t1].pc \in InnerSteps /\ writers[t2].pc \in InnerSteps) => t1 = t2
    /\ \A i \in 1..Len(acked), j \in 1..Len(acked) :
          i # j => ~Overlap(acked[i], acked[j])
    /\ \A i \in 1..Len(acked) : Readable(acked[i])
    /\ (\A t \in Threads : writers[t].pc = "idle") =>
          Database_len(seqno) = Len(AllAcked)

\* a thread waits for the lock while the other is between its index append
\* and its payload append
Contention ==
    \E t1 \in Threads, t2 \in Threads :
        writers[t1].pc = "lock" /\ writers[t2].pc = "flat_grow"

(* --------------------- sequence numbers and len() ---------------------- *)
SuccessfulAppend == calls' = calls + 1 /\ last'.op = "append" /\ last'.ret = "ok"

EmptyAppend == calls' = calls /\ last'.op = "append"

\* C11: an append_get_seqno of m > 0 records that returns Ok returns
\* Some(b) with b the len() of before the call (the index's prior size / 8),
\* and len() is b + m after it; with an empty batch it returns none.
AppendReturnsLen ==
    [][/\ SuccessfulAppend =>
            /\ last'.base = Some(Database_len(seqno))
            /\ last'.base = Some(seqno.size \div U64_SIZE)
            /\ Database_len(seqno') = Database_len(seqno) + Len(Last(acked').records)
       /\ EmptyAppend => last'.base = None]_vars

\* an append returned a base above zero, in a run with a failed append
ReturnedLaterBase ==
    /\ last.op = "append" /\ last.ret = "ok" /\ last.base # None
    /\ last.base[1] > 0
    /\ faults # <<>>

(* ---------------------------- empty appends --------------------------- *)
EmptyAppendStep ==
    last' # last /\ last'.op = "append" /\ calls' = calls /\ acked' = acked

\* C12: an append of no records returns Ok(None), does not take the
\* write lock (it returns while another thread holds it), and leaves len(),
\* both streams and the result of every get_by_seqno as they were.
EmptyAppendChangesNothing ==
    [][EmptyAppendStep =>
          /\ last'.ret = "ok" /\ last'.base = None
          /\ lock' = lock
          /\ seqno' = seqno /\ flat' = flat
          /\ Database_len(seqno') = Database_len(seqno)
          /\ \A k \in 0..MaxSeqno :
                get_by_seqno(seqno', flat', k) = get_by_seqno(seqno, flat, k)]_vars

\* an empty append returned while the other thread was between the two
\* appends of its own call, the lock held
EmptyAppendUnderLock ==
    /\ last = Result("append", "ok", None)
    /\ \E t \in Threads : lock = t /\ writers[t].pc = "flat_load"

(* ------------------------- zero-length records ------------------------ *)
ZeroLengthAppend == faults' # faults /\ Last(faults') = <<"reject", "none">>

\* C13: an append whose batch holds a zero-length record returns an
\* error without a panic and appends nothing: the seqno index gets no entry
\* and the flat size does not move.
ZeroLengthRejected ==
    [][ZeroLengthAppend =>
          /\ last'.ret = "err"
          /\ Database_len(seqno') = Database_len(seqno)
          /\ seqno' = seqno
          /\ FlatFile_memory_size(flat') = FlatFile_memory_size(flat)]_vars

(* ------------------------- reads past the end ------------------------- *)
\* C14: get_by_seqno(k) is none for every k >= len(), in every state
\* of an open database: empty, after appends (failed ones included), after a
\* reopen.
NoneBeyondLen ==
    open => \A k \in Database_len(seqno)..(MaxSeqno + 2) :
                get_by_seqno(seqno, flat, k) = RNone

\* a reopened database that holds records, after a failed append, asked for
\* seqno len()
AskedBeyondLen ==
    /\ open /\ opens > 0 /\ faults # <<>>
    /\ Database_len(seqno) > 1
    /\ get_by_seqno(seqno, flat, Database_len(seqno) - 1).tag = "some"
    /\ get_by_seqno(seqno, flat, Database_len(seqno)) = RNone

(* ------------------------------ iteration ----------------------------- *)
\* C15: iter_from_seqno(k) is none for every k > len(); for k = len()
\* it is an iterator whose first next() is none.
IterFromBeyondLen ==
    open =>
        /\ \A k \in (Database_len(seqno) + 1)..(MaxSeqno + 2) :
                iter_from_seqno(k) = None
        /\ iter_from_seqno(Database_len(seqno)) # None
        /\ next_impl(seqno, flat, iter_from_seqno(Database_len(seqno))[1]) = RNone

\* what does hold of the code: an iterator for every k, that ends at once
\* when k >= len()
IterFromBeyondLenEnds ==
    open =>
        \A k \in Database_len(seqno)..(MaxSeqno + 2) :
            /\ iter_from_seqno(k) # None
            /\ next_impl(seqno, flat, iter_from_seqno(k)[1]) = RNone

\* the records that appends which returned Ok were told have seqno k
AckedAt(k) ==
    {acked[i].records[k - acked[i].base + 1] :
        i \in {j \in 1..Len(acked) :
                 acked[j].base <= k /\ k < acked[j].base + Len(acked[j].records)}}

YieldsFrom(k, items) ==
    /\ Len(items) = Database_len(seqno) - k
    /\ \A i \in 1..Len(items) :
            /\ AckedAt(k + i - 1) = {items[i].val}
            /\ items[i].from = k + i - 1
            /\ items[i].to = k + i
    /\ next_impl(seqno, flat, SeqNoIter_new(k + Len(items))) = RNone

\* C16: with no append running, the iterator of iter_from_seqno(k),
\* k <= len(), yields the records k, k+1, .., len()-1 in that order, each
\* once, and then ends; its position rises by one per item yielded.
IterYieldsAll ==
    open => \A k \in 0..Database_len(seqno) :
                YieldsFrom(k, drain(seqno, flat, iter_from_seqno(k)[1], MaxSeqno + 1))

\* the same in the runs without a failed append
IterYieldsAllNoFault ==
    (open /\ faults = <<>>) =>
        \A k \in 0..Database_len(seqno) :
            YieldsFrom(k, drain(seqno, flat, iter_from_seqno(k)[1], MaxSeqno + 1))

(* -------------------------------- last() ------------------------------ *)
LastOfLastAppend(sq, fl) ==
    /\ acked # <<>>
    /\ Database_last(sq, fl) = RSome(Last(Last(acked).records))
    /\ AckedAt(Database_len(sq) - 1) = {Last(Last(acked).records)}

\* C17: last() is none on an empty database; otherwise it is the
\* record with seqno len() - 1, the last record of the last append that
\* returned Ok.
LastIsLatest ==
    open => IF Database_is_empty(seqno) THEN Database_last(seqno, flat) = RNone
            ELSE LastOfLastAppend(seqno, flat)

\* the same in the runs without a failed append
LastIsLatestNoFault ==
    (open /\ faults = <<>>) =>
        IF Database_is_empty(seqno) THEN Database_last(seqno, flat) = RNone
        ELSE LastOfLastAppend(seqno, flat)

(* ---------------------------- the open check -------------------------- *)
OpenStep == opens' = opens + 1 /\ last'.op = "open"

\* the files: the seqno index holds no entry, or its last entry is below the
\* flat size
IndexIntact(sq, fl) ==
    \/ sq.header = 0
    \/ from_le_bytes(ReadRange(sq.bytes, sq.header - U64_SIZE, U64_SIZE)) < fl.header

LastOffsetInside(sq, fl) ==
    \/ Database_len(sq) = 0
    \/ /\ get_pointer_to_value(sq, Database_len(sq) - 1).tag = "some"
       /\ get_pointer_to_value(sq, Database_len(sq) - 1).val < FlatFile_memory_size(fl)

\* C18: an open succeeds exactly when the seqno index is empty or its
\* last entry is readable and below the flat size, and otherwise returns
\* SeqNoIndexDamaged; after a successful open the last offset is below the
\* flat size.
OpenValidates ==
    [][OpenStep =>
          /\ (last'.ret = "ok") <=> IndexIntact(seqno, flat)
          /\ last'.ret \in {"ok", "damaged"}
          /\ last'.ret = "ok" => LastOffsetInside(seqno', flat')]_vars

\* the same for the opens that do not stop at the assertion of
\* GrowableMmap::new
OpenValidatesUnlessPanic ==
    [][(OpenStep /\ last'.ret # "panic") =>
          /\ (last'.ret = "ok") <=> IndexIntact(seqno, flat)
          /\ last'.ret \in {"ok", "damaged"}
          /\ last'.ret = "ok" => LastOffsetInside(seqno', flat')]_vars

(* ------------------------ published bytes stay ------------------------ *)
\* the byte a reader is handed at address a: the first of the slice
FirstByte(r) == IF r.tag = "some" /\ r.val # <<>> THEN Some(r.val[1]) ELSE None

ByteRead(st, a) == FirstByte(Appender_get_data(st, a))

SameIfRead(before, after) == before = None \/ after = None \/ after = before

SameProcess == open /\ open'

PublishedStays(st, next) ==
    \/ next = st
    \/ /\ next.size >= st.size
       /\ \A a \in 0..(st.size - 1) :
              /\ ByteAt(next.bytes, a) = ByteAt(st.bytes, a)
              /\ SameIfRead(ByteRead(st, a), ByteRead(next, a))

BelowTheWrite(len) ==
    appending.pc \in {"write", "store"} => len <= appending.actual_size

Handed(r) ==
    /\ r.result.tag \in {"none", "slice"}
    /\ r.result.tag = "slice" =>
          /\ r.result.len = r.size
          /\ r.size <= actual_size
          /\ BelowTheWrite(r.result.len)

\* C20: what get_data hands its reader and what snapshot returns is
\* exactly the first `size` bytes of the map, for the size the call loaded (or
\* nothing); the bytes an append running at the same time is writing, at and
\* past actual_size, are never among them.
ReaderSeesOnlyPublished ==
    reading.pc = "done" => Handed(reading)

\* the same for the calls that begin when the map exists
ReaderSeesOnlyPublishedOnceMapped ==
    (reading.pc = "done" /\ reading.mapped) => Handed(reading)

(* --------------- the published size of appender.rs's Appender --------- *)
AppendReturns(ret) == appending' # appending /\ appending'.pc = "idle" /\ appending'.ret = ret

\* the step makes another Appender, whose size is the length of its file
AnotherAppender == \E ms \in MapSizes : AppenderNew(ms)

\* C21: the Appender's size is stored only after f has written all of
\* its bytes and the flush has succeeded; a successful append(n) raises it by
\* exactly n, an append that returns an error leaves it, and it never falls.
SizeStoredAfterFlush ==
    [][/\ actual_size' >= actual_size
       /\ (actual_size' # actual_size /\ ~AnotherAppender) =>
            /\ appending.pc = "store"
            /\ appending.written = Len(appending.data)
            /\ ReadRange(mmap.bytes, actual_size, Len(appending.data)) = appending.data
            /\ actual_size' = actual_size + Len(appending.data)
            /\ AppendReturns("ok")
       /\ AppendReturns("ok") => actual_size' = actual_size + Len(appending.data)
       /\ (\E e \in {"MmapTooSmall", "Write", "Mmap"} : AppendReturns(e)) =>
            actual_size' = actual_size]_vars

\* an append has returned Ok after an earlier one returned an error
StoredAfterFailure ==
    appending.pc = "idle" /\ appending.ret = "ok" /\ io_errors > 0 /\ actual_size > 1

(* ----------------------- the header's logical size -------------------- *)
\* n bytes to hand to grow_and_apply, unlike any byte of a record
Probe(n) == [i \in 1..n |-> 200 + i]

ProbeSizes == {1, MaxRecLen, U64_SIZE}

BeforeTheFlush == {"extend", "mmap", "protect", "flush"}

\* the stream g that grow_and_apply(n, f) leaves of st when it stops at stop
HeaderAfter(st, g, n, stop) ==
    /\ stop \in BeforeTheFlush => g.header = st.header
    /\ stop = "none" => g.header = st.header + n
    /\ g.header # st.header =>
          /\ stop \notin BeforeTheFlush
          /\ g.header = st.header + n
          /\ g.active # None
          /\ ReadRange(g.bytes, g.active[1].base + start_write_from(st, n), n) = Probe(n)

HeaderStoredLast(st) ==
    \A n \in ProbeSizes : \A stop \in Stops(file, st, n) \cup {"none"} :
        HeaderAfter(st, grow_and_apply(file, st, n, Probe(n), stop), n, stop)

\* C22: grow_and_apply stores the header's logical size only after the
\* payload is written and the flush of the active mapping has succeeded; when
\* it stops before that the header keeps its value; on success it rises by
\* exactly n.
HeaderStoredAfterFlush ==
    open => HeaderStoredLast(seqno) /\ HeaderStoredLast(flat)

\* an append succeeded on a file-backed stream whose earlier append stopped
\* at the flush
StoredAfterFailedFlush ==
    /\ open /\ file /\ faults # <<>> /\ Last(faults)[2] = "flush"
    /\ last.op = "append" /\ last.ret = "ok" /\ last.base # None
    /\ flat.header > 0 /\ seqno.header > 0

(* -------------------------- reads beside appends ----------------------- *)
\* the reader is at get_record_at_offset of a record that an append which
\* returned before the call had written
AtPublishedRead ==
    reader.pc = "read" /\ reader.committed # None /\ reader.offset.tag = "some"

\* C23: a read of a published address does not wait for an append: with a
\* thread inside grow_and_apply, the read can be made and completed.
ReadsDoNotWait ==
    AtPublishedRead => ENABLED RRead

\* the read waits exactly when a thread is inside grow_and_apply of the stream
ReadWaitsForGrow ==
    AtPublishedRead => (ENABLED RRead <=> ~inside_grow("flat_write"))

(* ----------------------- what the appends add up to -------------------- *)
\* the first size bytes of the map
Published(m, size) == ReadRange(m.bytes, 0, size)

\* C24: after successful appends of d1, ..., dk, get_data passes exactly
\* d1 \o ... \o dk and size() is the sum of their lengths: an append that
\* returns Ok adds its bytes at the end of what get_data passes and its
\* length to the size, no other step of the Appender changes either, and both
\* start empty.
AppendsAccumulate ==
    [][IF AppendReturns("ok")
       THEN /\ Published(mmap', actual_size')
                 = Published(mmap, actual_size) \o appending.data
            /\ actual_size' = actual_size + Len(appending.data)
            /\ get_data(mmap', actual_size') = Some(Published(mmap', actual_size'))
       ELSE \/ AnotherAppender
            \/ /\ Published(mmap', actual_size') = Published(mmap, actual_size)
               /\ actual_size' = actual_size]_vars

\* two appends returned Ok, and get_data passes the first and then the second
TwoAppendsPublished ==
    /\ appending.pc = "idle" /\ appending.ret = "ok" /\ appends = 2 /\ io_errors = 0
    /\ \E n \in 1..MaxRecLen, m \in 1..MaxRecLen :
          get_data(mmap, actual_size) = Some(Record(1, n) \o Record(2, m))

(* ----------------------------- MmapTooSmall --------------------------- *)
\* the step is the test of append, on actual_size + n and the map's length
AppendTests == appending.pc = "load" /\ appending' # appending

\* the Appender's size and its file are within its map
WithinMap == constructed(mmap) => actual_size <= mmap.len /\ file_len <= mmap.len

\* C25: an append(n) with actual_size + n above the map's length returns
\* MmapTooSmall and leaves the size, the map's bytes and the file's length;
\* Appender::new on a file longer than map_size returns MmapTooSmall; the
\* size of an Appender is at most the length of its map in every state.
MmapTooSmallRefused ==
    [][/\ AppendTests =>
            IF mmap.len < actual_size + Len(appending.data)
            THEN /\ AppendReturns("MmapTooSmall")
                 /\ UNCHANGED <<actual_size, mmap, file_len>>
            ELSE appending'.pc = "set_len"
       /\ AppendReturns("MmapTooSmall") =>
            /\ mmap.len < actual_size + Len(appending.data)
            /\ UNCHANGED <<actual_size, mmap, file_len>>
       /\ \A ms \in MapSizes : (AppenderNew(ms) /\ ms < file_len) =>
            mmap'.state = "MmapTooSmall"
       /\ WithinMap /\ WithinMap']_vars

\* an append was refused by an Appender, and then Appender::new on its file
RefusedTwice ==
    /\ mmap.state = "MmapTooSmall" /\ mmap.len < file_len
    /\ appending.ret = "MmapTooSmall" /\ actual_size > 0

(* ------------------------- in place or rollover ------------------------ *)
\* the active segment's capacity minus its recorded end
remaining(st) == st.active[1].len - current_mmap_size(st.active[1].bounds)

\* grow_and_apply(n) freezes the active segment of st
Retires(st, n) ==
    Len(grow_and_apply(file, st, n, Probe(n), "none").index) > Len(st.index)

\* grow_and_apply(n) keeps the active segment of st and extends its bounds
InPlace(st, n) ==
    /\ ~Retires(st, n)
    /\ grow_and_apply(file, st, n, Probe(n), "none").active[1].len = st.active[1].len
    /\ current_mmap_size(grow_and_apply(file, st, n, Probe(n), "none").active[1].bounds)
         = current_mmap_size(st.active[1].bounds) + n

InPlaceIffFits(st) ==
    st.active # None =>
        \A n \in 1..(remaining(st) + 1) :
            /\ remaining(st) >= n => InPlace(st, n)
            /\ remaining(st) < n => Retires(st, n)

\* C26: grow_and_apply(n) writes in place whenever the active segment's
\* remaining space is at least n, the exact fill included, and retires the
\* segment only when the remaining space is below n.
InPlaceWhenItFits ==
    open => InPlaceIffFits(seqno) /\ InPlaceIffFits(flat)

InPlaceIffRoom(st) ==
    st.active # None =>
        \A n \in 1..(remaining(st) + 1) :
            /\ remaining(st) > n => InPlace(st, n)
            /\ remaining(st) <= n => Retires(st, n)

\* the segment is kept exactly when the remaining space is above n
InPlaceWhenRoomIsLeft ==
    open => InPlaceIffRoom(seqno) /\ InPlaceIffRoom(flat)

(* ------------------------ the capacity of a segment -------------------- *)
\* the capacity of the active segment after grow_and_apply(n)
NewCapacity(st, n) == grow_and_apply(file, st, n, Probe(n), "none").active[1].len

CapacityDoubles(st) ==
    st.active # None =>
        \A n \in 1..(remaining(st) + 1) :
            Retires(st, n) =>
                /\ NewCapacity(st, n) = Max(n, 2 * st.active[1].len)
                /\ NewCapacity(st, n) >= st.active[1].len

\* C27: when grow_and_apply(n) retires the active segment the new one has
\* capacity max(n, 2 * the retired capacity), on a file and in memory alike,
\* so the capacity never shrinks from an active segment to the next.
CapacityNeverShrinks ==
    open => CapacityDoubles(seqno) /\ CapacityDoubles(flat)

\* on a file the new capacity is max(n, 2 * the retired capacity); in memory
\* it is n
CapacityByBacking ==
    open => \A st \in {seqno, flat} :
        st.active # None =>
            \A n \in 1..(remaining(st) + 1) :
                Retires(st, n) =>
                    NewCapacity(st, n) = IF file THEN Max(n, 2 * st.active[1].len) ELSE n

(* --------------------------- the slice handed to f --------------------- *)
\* the slice grow_and_apply(n, f) hands to f on the stream st
SliceFor(st, n) == writer_slice(place(file, st, n, "none"), start_write_from(st, n))

\* the end of the bounds the stream has recorded: frozen ones and active ones
RecordedEnd(st) ==
    IF st.active = None THEN memory_size(st.index)
    ELSE last_global_index(st.active[1].bounds)

ExactSliceAtTail(st) ==
    \A n \in ProbeSizes :
        /\ SliceFor(st, n).len = n
        /\ SliceFor(st, n).start = st.header

\* C28: grow_and_apply(n, f) calls f with a mutable slice of exactly n bytes
\* that starts at the logical tail of the stream, whether it makes the first
\* segment, writes in place or rolls over.
WriterGetsExactSlice ==
    open => ExactSliceAtTail(seqno) /\ ExactSliceAtTail(flat)

SliceFromRecordedEnd(st) ==
    \A n \in ProbeSizes :
        /\ SliceFor(st, n).len >= n
        /\ SliceFor(st, n).len = place(file, st, n, "none").active[1].len
                                   - start_write_from(st, n)
        /\ SliceFor(st, n).start = RecordedEnd(st)
        /\ ~file => SliceFor(st, n).len = n
        /\ (\A i \in 1..Len(faults) : faults[i][1] = "reject") =>
              SliceFor(st, n).start = st.header

\* the slice runs from the recorded end of the stream to the end of the
\* active mapping: at least n bytes, n in memory, and at the logical tail
\* when no append has failed
WriterGetsRestOfSegment ==
    open => SliceFromRecordedEnd(seqno) /\ SliceFromRecordedEnd(flat)

(* ------------------------ records and segments ------------------------- *)
\* the address ranges of the segments of a stream: the frozen ones and the
\* recorded part of the active one
Segments(st) ==
    {<<st.index[i].start, last_global_index(st.index[i])>> : i \in 1..Len(st.index)}
    \cup (IF st.active = None THEN {}
          ELSE {<<st.active[1].bounds.start, last_global_index(st.active[1].bounds)>>})

\* the end of record k: the next entry, or the flat size for the last record
EntryEnd(k) ==
    IF Entry(k + 1).tag = "some" THEN Entry(k + 1).val ELSE FlatFile_memory_size(flat)

\* the bytes [from, to) lie in one segment of the flat stream and a read at
\* from is handed at least that many
WhollyInside(from, to) ==
    /\ from <= to
    /\ \E seg \in Segments(flat) : seg[1] <= from /\ to <= seg[2]
    /\ get_ref_and_apply(flat, from).tag = "some"
    /\ Len(get_ref_and_apply(flat, from).val) >= to - from

RecordsInsideSegments ==
    \A k \in 0..(Database_len(seqno) - 1) :
        Entry(k).tag = "some" /\ WhollyInside(Entry(k).val, EntryEnd(k))

\* C29: after any sequence of appends every record k lies wholly inside one
\* segment: [entry[k], entry[k+1]), or up to the flat size for the last
\* record, crosses no segment boundary, and a read of its full length at
\* entry[k] succeeds.
RecordInOneSegment ==
    open => RecordsInsideSegments

\* the same in the runs where no append failed
RecordInOneSegmentNoFault ==
    (open /\ faults = <<>>) => RecordsInsideSegments

(* ------------------------- the chain of segments ----------------------- *)
\* the frozen segments of st cover [0, memory_size()) in the order they were
\* made, and the active one, if any, starts there: add_mmap's assertion holds
\* when it is retired
Chained(st) ==
    /\ Len(st.active) <= 1
    /\ st.index # <<>> => st.index[1].start = 0
    /\ \A i \in 1..(Len(st.index) - 1) :
          /\ st.index[i].start < last_global_index(st.index[i])
          /\ st.index[i + 1].start = last_global_index(st.index[i])
    /\ st.active # None =>
          /\ st.active[1].bounds.start = memory_size(st.index)
          /\ st.active[1].base = st.active[1].bounds.start
          /\ add_mmap_assert(st.index, st.active[1].bounds)

\* C30: in every reachable state of a GrowableMmap there is at most one
\* active segment, the frozen segments cover contiguous ranges in creation
\* order from 0, the active segment starts at the frozen memory_size(), and
\* the assertion of add_mmap (start = previous end) never fails.
SegmentsChained ==
    Chained(seqno) /\ Chained(flat)

\* two segments frozen and a third active, after an append that failed
ThreeSegments ==
    /\ open /\ Len(flat.index) >= 2 /\ flat.active # None
    /\ faults # <<>>

(* ------------------------- the length of the file ---------------------- *)
FileHoldsLogicalSize(st) == st.fileLen >= HEADER_SIZE + st.header

\* C31: for a file-backed stream the file's length is at least the header
\* size plus the header's logical_size in every reachable state: after
\* creation, after every grow_and_apply, failed or not, and after reopen
\* followed by appends.
FileCoversLogicalSize ==
    file => FileHoldsLogicalSize(seqno) /\ FileHoldsLogicalSize(flat)

\* a reopened file-backed database whose flat stream has rolled over since
GrownAfterReopen ==
    /\ open /\ file /\ opens > 0
    /\ flat.index # <<>> /\ flat.active # None
    /\ flat.header > flat.index[1].internal_bounds[Len(flat.index[1].internal_bounds)]

(* -------------------- reads at and past the logical size --------------- *)
\* the addresses from the logical size of st on
PastTheEnd(st) == st.header..(st.header + U64_SIZE)

RefusesPastTheEnd(st) ==
    \A a \in PastTheEnd(st) : get_ref_and_apply(st, a) = RNone

\* C32: a read at any address at or past the stream's logical size returns
\* none, with no call of the reader function and no panic: at the end, past
\* the active segment's recorded bounds, and with no active segment.
ReadPastEndRefused ==
    open => RefusesPastTheEnd(seqno) /\ RefusesPastTheEnd(flat)

RefusesWhereItCan(st) ==
    /\ get_ref_and_apply(st, RecordedEnd(st)) = RNone
    /\ \A a \in PastTheEnd(st) :
          /\ st.active = None /\ a >= memory_size(st.index) =>
                get_ref_and_apply(st, a) = RNone
          /\ st.active # None /\ a > RecordedEnd(st) =>
                get_ref_and_apply(st, a) = RPanic
          /\ a >= Appender_size(st) => Appender_get_data(st, a) = RNone

\* get_ref_and_apply returns none at the recorded end and with no active
\* segment, panics past the recorded end of an active segment, and the
\* Appender's get_data refuses every offset at or past its published size
ReadPastEndByCase ==
    open => RefusesWhereItCan(seqno) /\ RefusesWhereItCan(flat)

(* ------------------------------ PageIndex ------------------------------ *)
\* the pages of bounds that hold address: page i is [bounds[i+1], bounds[i+2])
PagesHolding(bounds, address) ==
    {i \in 0..(Len(bounds) - 2) : bounds[i + 1] <= address /\ address < bounds[i + 2]}

\* what find(address) is to return on bounds
PageOf(bounds, address) ==
    IF address >= PageIndex_memory_size(bounds) THEN {NoPage}
    ELSE {[tag |-> "some", len |-> bounds[i + 2] - bounds[i + 1],
           offset |-> bounds[i + 1], number |-> i] :
             i \in PagesHolding(bounds, address)}

\* C33: for pages added with strictly increasing ends, find(a) returns the
\* one page i with e(i) <= a < e(i+1) as (number i, offset e(i), len
\* e(i+1) - e(i)), and none for every a >= memory_size() and on an empty
\* index; memory_size() is the last end; find returns on every input.
FindReturnsThePage ==
    /\ \A a \in 0..(MaxEnd + 1) :
          /\ PageOf(page_index, a) = {PageIndex_find(page_index, a)}
          /\ a < PageIndex_memory_size(page_index) =>
                Cardinality(PagesHolding(page_index, a)) = 1
    /\ page_index # <<>> =>
          PageIndex_memory_size(page_index) = page_index[Len(page_index)]
    /\ page_index = <<>> => PageIndex_memory_size(page_index) = 0
    /\ found.called => {found.result} = PageOf(page_index, found.address)

\* find has returned the fourth of four pages
FoundLastPage ==
    /\ Len(page_index) = MaxPages + 1
    /\ found.called /\ found.result.tag = "some" /\ found.result.number = MaxPages - 1

(* ------------------------------ IndexOnMmaps --------------------------- *)
\* the recorded bounds of segment mi above the address, as stream addresses
BoundsAbove(mi, address) ==
    {mi.start + mi.internal_bounds[j] : j \in 1..Len(mi.internal_bounds)}
        \ (0..address)

\* the least address of a set of addresses that is not empty
Least(S) == CHOOSE x \in S : \A y \in S : x <= y

\* the keys of the segments compare with the address as the binary search
\* needs: below it up to the segment that holds it, above it after
KeysOrdered(index, address) ==
    \A i \in 1..Len(index), j \in 1..Len(index) :
        (i < j /\ index[i].start >= address) => index[j].start > address

FindsTheSegment(index) ==
    \A a \in 0..(memory_size(index) + 1) :
        /\ KeysOrdered(index, a)
        /\ a >= memory_size(index) => IndexOnMmaps_find(index, a) = NoDescriptor
        /\ a < memory_size(index) =>
              /\ Cardinality(containing(index, a)) = 1
              /\ \A i \in containing(index, a) :
                    /\ IndexOnMmaps_find(index, a) =
                          IndexDescriptor(i - 1, a - index[i].start,
                                          Least(BoundsAbove(index[i], a)) - a)
                    /\ IndexOnMmaps_find(index, a).len > 0

\* C34: for every address a below memory_size(), IndexOnMmaps.find(a)
\* returns the number of the one segment whose range holds a, mmap_offset =
\* a minus that segment's start and len = the distance from a to the next
\* recorded bound of the segment, above 0; for every a at or past
\* memory_size() it returns none.
FindLocatesAddress ==
    FindsTheSegment(seqno.index) /\ FindsTheSegment(flat.index)

\* two frozen segments, and find on an address inside the record of the
\* second
FoundInsideRecord ==
    /\ Len(seqno.index) >= 2
    /\ IndexOnMmaps_find(seqno.index, seqno.index[2].start + 1).tag = "some"
    /\ IndexOnMmaps_find(seqno.index, seqno.index[2].start + 1).mmap_number = 1
    /\ IndexOnMmaps_find(seqno.index, seqno.index[2].start + 1).mmap_offset = 1

(* ------------------------ the entries of the index --------------------- *)
\* entry k is returned exactly when it lies below the published size
ReturnedIffPublished(sq) ==
    \A k \in 0..(MaxSeqno + 1) :
        get_pointer_to_value(sq, k).tag = "some"
            <=> U64_SIZE * (k + 1) <= Appender_size(sq)

\* the offsets of a batch of the call that is made in this state
Updates ==
    {seqno_index_update(Batch(shape, submitted + 1), FlatFile_memory_size(flat)) :
        shape \in Shapes \cup ZeroShapes}

\* the entries from first on are the offsets u, in their order
EntriesAre(sq, first, u) ==
    \A j \in 1..Len(u) : get_pointer_to_value(sq, first + j - 1) = PSome(u[j])

\* SeqNoIndex::append has published offsets: they are the entries after
\* those there were, which are as they were
AppendedInOrder(sq, next) ==
    /\ \A k \in 0..(SeqNoIndex_size(sq) - 1) :
          get_pointer_to_value(next, k) = get_pointer_to_value(sq, k)
    /\ \E u \in Updates :
          /\ Len(u) = SeqNoIndex_size(next) - SeqNoIndex_size(sq)
          /\ EntriesAre(next, SeqNoIndex_size(sq), u)

LittleEndianRoundTrip ==
    \A v \in {0, 1, 255, 256, 257, 65535, 65536, 16777217} :
        from_le_bytes(to_le_bytes(v, U64_SIZE)) = v

EntriesStep ==
    /\ LittleEndianRoundTrip
    /\ open => ReturnedIffPublished(seqno)
    /\ open' => ReturnedIffPublished(seqno')
    /\ (last'.op = "append" /\ SeqNoIndex_size(seqno') # SeqNoIndex_size(seqno)) =>
          AppendedInOrder(seqno, seqno')

\* C35: get_pointer_to_value(k) returns a value exactly when 8 * (k + 1) is
\* at most the published size of the index stream, and the value is the k-th
\* offset appended (written and read little-endian), over any sequence of
\* append batches.
EntryIsKthOffset ==
    [][EntriesStep]_vars

\* the same over the appends of a run in which no OS call has failed
EntryIsKthOffsetNoFault ==
    [][(\A i \in 1..Len(faults') : faults'[i][1] = "reject") => EntriesStep]_vars

(* ------------------------------ SharedMmap ----------------------------- *)
\* the last call was slice(start..end) with 0 <= start <= end <= the length
\* of the view
SlicedInRange ==
    /\ sliced.called
    /\ sliced.start.kind = "Included" /\ sliced.end.kind = "Excluded"
    /\ sliced.start.at <= sliced.end.at /\ sliced.end.at <= sliced.of.len

\* C36: slice(start..end) on a view of length L with 0 <= start <= end <= L
\* returns a view of length end - start that begins start bytes into the
\* view and shares its map; an empty range returns a view of length zero.
SliceIsTheWindow ==
    SlicedInRange =>
        sliced.result =
            [tag |-> "some",
             val |-> [map_len |-> sliced.of.map_len,
                      base |-> sliced.of.base + sliced.start.at,
                      len |-> sliced.end.at - sliced.start.at]]

\* slice(start..end) in range returns None
SliceInRangeReturnsNone ==
    SlicedInRange => sliced.result = Refused

(* --------------------- the file's length after append ------------------ *)
\* no append is in progress on an Appender that was constructed
AppendReturned == appending.pc = "idle" /\ constructed(mmap)

\* C37: an append that fails after set_len (the map's init or the flush
\* fails) sets the file's length back to the actual_size it loaded before it
\* returns the error, so after every append the file's length is actual_size.
FileLengthIsActualSize ==
    AppendReturned => file_len = actual_size

\* what does hold: the file is never shorter than actual_size, and is exactly
\* that long after an append that returned Ok
FileLengthAfterAppend ==
    AppendReturned =>
        /\ file_len >= actual_size
        /\ appending.ret = "ok" => file_len = actual_size

\* an append that failed past its set_len returns with the file's length
\* where set_len left it
FailedAppendKeepsLength ==
    [][(appending.pc \in {"init", "write"} /\ appending'.pc = "idle") =>
          /\ file_len' = appending.new_file_size
          /\ actual_size' = appending.actual_size
          /\ file_len' > actual_size']_vars

(* ------------------- the header and the recorded bounds ---------------- *)
HeaderIsRecorded(st) == st.header = RecordedEnd(st)

\* C38: after every grow_and_apply, returned Ok or an error, the header's
\* logical_size equals the total the segment index records: the frozen
\* memory_size() plus the recorded end of the active segment.
HeaderIsRecordedEnd ==
    open => HeaderIsRecorded(seqno) /\ HeaderIsRecorded(flat)

\* what does hold: the header is never past the recorded end, and is at it
\* while no grow_and_apply has stopped at an I/O error
HeaderWithinRecorded ==
    open =>
        /\ seqno.header <= RecordedEnd(seqno) /\ flat.header <= RecordedEnd(flat)
        /\ (\A i \in 1..Len(faults) : faults[i][1] = "reject") =>
               HeaderIsRecorded(seqno) /\ HeaderIsRecorded(flat)

(* --------------------- the frozen index and its maps ------------------- *)
\* index and maps of the frozen segments are as long as each other, and the
\* i-th map is the window the i-th entry of the index describes
IndexDescribesMaps(st) ==
    /\ Len(st.index) = Len(st.maps)
    /\ \A i \in 1..Len(st.index) :
          /\ st.maps[i].base = st.index[i].start
          /\ st.maps[i].len = current_mmap_size(st.index[i])

\* C39: inactive_mmaps.index and inactive_mmaps.maps always hold the same
\* number of entries and entry i of the index describes map i, also after a
\* rollover that failed at the protection step and after opening an existing
\* file, so the mmap_number that find returns is a valid position in maps.
IndexAndMapsAgree ==
    open => IndexDescribesMaps(seqno) /\ IndexDescribesMaps(flat)

\* no rollover has stopped at make_read_only
NoProtectFault == \A i \in 1..Len(faults) : faults[i][2] # "protect"

\* what does hold: the two agree until a rollover stops at make_read_only,
\* and from then on the index is one entry longer than maps
IndexAheadOfMaps(st) ==
    /\ NoProtectFault => IndexDescribesMaps(st)
    /\ Len(st.index) - Len(st.maps) \in {0, 1}

IndexAndMapsByFault ==
    open => IndexAheadOfMaps(seqno) /\ IndexAheadOfMaps(flat)

(* ------------------------ next_offset - offset ------------------------- *)
\* neither get_by_seqno(k) nor next() of an iterator at k takes next_offset
\* below offset, for every sequence number up to the length of the database
NoUnderflowAt(k) ==
    /\ get_by_seqno(seqno, flat, k) # RUnderflow
    /\ next_impl(seqno, flat, SeqNoIter_new(k)) # RUnderflow

\* C40: the subtraction next_offset - offset of get_by_seqno and of SeqNoIter
\* never underflows, in every reachable state: also during an append in
\* progress and after a failed append followed by further appends.
LengthNeverUnderflows ==
    open => \A k \in 0..Database_len(seqno) : NoUnderflowAt(k)

\* the same in the runs where no append has returned an error, with no
\* append in progress
LengthNeverUnderflowsNoFault ==
    (open /\ faults = <<>>) =>
        \A k \in 0..Database_len(seqno) : NoUnderflowAt(k)

\* the same of a get_by_seqno that runs beside the appends of other threads,
\* none of which fails
ReaderNeverUnderflows ==
    reader.result # RUnderflow

====
